---- MODULE Spec2Model ----
(***************************************************************************)
(* A model of markdown2typst: the pipeline of src/src/markdown2typst.ts    *)
(* (collect definitions and footnotes, decode the frontmatter, find the    *)
(* leading H1, merge the metadata, render the body, assemble the output).  *)
(*                                                                         *)
(* A JavaScript string is modelled as a sequence of tokens.  Every         *)
(* character that comes from the document or from the options is a token   *)
(* of its own; a literal of the code's templates may be one longer token   *)
(* ("#link("), with every newline kept as a token of its own.              *)
(***************************************************************************)
EXTENDS Integers, Sequences, FiniteSets, TLC

VARIABLES
    pc,                  \* position inside markdown2typst
    input,               \* what the parser makes of the markdown: a tree, or a failure
    options,             \* the options object of the call
    tree,                \* the parsed tree (its children)
    definitions,         \* Map<string, Definition>, as a sequence of [key, def]
    footnoteDefinitions, \* Map<string, FootnoteDefinition>
    frontmatter,         \* the decoded Frontmatter
    leadingH1,           \* {title, index} or null
    metadata,            \* the merged DocumentMetadata
    nodeIndex,           \* buildOutput: the next body node to render
    bodyParts,           \* buildOutput: what the body nodes rendered so far gave
    externalImages,      \* context.warnings.externalImages
    errlog,              \* the calls made to options.onError, in order
    output               \* the string returned, once the call has returned

vars == <<pc, input, options, tree, definitions, footnoteDefinitions, frontmatter,
          leadingH1, metadata, nodeIndex, bodyParts, externalImages, errlog, output>>

(***************************************************************************)
(* Bounds of the model.                                                    *)
(***************************************************************************)
MaxBlocks == 2    \* body blocks of a document
MaxDefs == 3      \* link definitions of one identifier in a document
MaxList == 3      \* elements of an author or keyword list
\* nested footnote renderings at which the call stack of the engine is full and
\* a call raises a RangeError (thousands in an engine; here a few)
MaxStack == 4

(***************************************************************************)
(* Strings.                                                                *)
(***************************************************************************)
NL == "\n"
BSL == "\\"
QUOTE == "\""
\* the backtick character (SANY cannot read a backtick inside a string literal)
BACKTICK == "<backtick>"

\* the characters String.prototype.trim removes (those the model uses)
WhiteSpace == {" ", NL, "\t"}

\* null / undefined where the code returns it instead of a string
Null == <<"#null#">>

RECURSIVE Flatten(_)
Flatten(seqs) ==
    IF seqs = <<>> THEN <<>> ELSE Head(seqs) \o Flatten(Tail(seqs))

\* Array.prototype.join
RECURSIVE Join(_, _)
Join(parts, sep) ==
    IF parts = <<>> THEN <<>>
    ELSE IF Len(parts) = 1 THEN parts[1]
    ELSE parts[1] \o sep \o Join(Tail(parts), sep)

\* String.prototype.repeat
RECURSIVE Repeat(_, _)
Repeat(tok, n) == IF n <= 0 THEN <<>> ELSE <<tok>> \o Repeat(tok, n - 1)

\* String.prototype.trim
TrimStart(s) ==
    LET keep == {i \in 1..Len(s) : s[i] \notin WhiteSpace}
    IN  IF keep = {} THEN <<>>
        ELSE SubSeq(s, CHOOSE i \in keep : \A j \in keep : i <= j, Len(s))

TrimEnd(s) ==
    LET keep == {i \in 1..Len(s) : s[i] \notin WhiteSpace}
    IN  IF keep = {} THEN <<>>
        ELSE SubSeq(s, 1, CHOOSE i \in keep : \A j \in keep : i >= j)

Trim(s) == TrimEnd(TrimStart(s))

\* String.prototype.toLowerCase and toUpperCase, on the letters A-Z
UpperCase ==
    <<"A", "B", "C", "D", "E", "F", "G", "H", "I", "J", "K", "L", "M",
      "N", "O", "P", "Q", "R", "S", "T", "U", "V", "W", "X", "Y", "Z">>
LowerCase ==
    <<"a", "b", "c", "d", "e", "f", "g", "h", "i", "j", "k", "l", "m",
      "n", "o", "p", "q", "r", "s", "t", "u", "v", "w", "x", "y", "z">>

LowerChar(c) ==
    IF \E i \in 1..Len(UpperCase) : UpperCase[i] = c
    THEN LowerCase[CHOOSE i \in 1..Len(UpperCase) : UpperCase[i] = c]
    ELSE c

UpperChar(c) ==
    IF \E i \in 1..Len(LowerCase) : LowerCase[i] = c
    THEN UpperCase[CHOOSE i \in 1..Len(LowerCase) : LowerCase[i] = c]
    ELSE c

ToLowerCase(s) == [i \in 1..Len(s) |-> LowerChar(s[i])]
ToUpperCase(s) == [i \in 1..Len(s) |-> UpperChar(s[i])]

\* String.prototype.startsWith
StartsWith(s, prefix) ==
    Len(s) >= Len(prefix) /\ SubSeq(s, 1, Len(prefix)) = prefix

\* String.prototype.includes
Includes(hay, needle) ==
    \E i \in 0..(Len(hay) - Len(needle)) :
        \A j \in 1..Len(needle) : hay[i + j] = needle[j]

\* the number of places where needle occurs in hay
Occurrences(hay, needle) ==
    Cardinality({i \in 0..(Len(hay) - Len(needle)) :
                    \A j \in 1..Len(needle) : hay[i + j] = needle[j]})

\* String.prototype.split('\n')
RECURSIVE SplitLines(_)
SplitLines(s) ==
    IF \A i \in 1..Len(s) : s[i] # NL THEN <<s>>
    ELSE LET k == CHOOSE i \in 1..Len(s) :
                      s[i] = NL /\ \A j \in 1..(i - 1) : s[j] # NL
         IN  <<SubSeq(s, 1, k - 1)>> \o SplitLines(SubSeq(s, k + 1, Len(s)))

(***************************************************************************)
(* src/src/utils.ts: escaping and formatting utilities.                    *)
(***************************************************************************)
TypstSpecial == {BSL, "#", "*", "_", BACKTICK, "[", "]", "$", "<", ">", "@"}

\* the catch returns the input itself when input.replace raises
escapeTypstText(in) ==
    IF in = Null THEN Null
    ELSE Flatten([i \in 1..Len(in) |->
                    IF in[i] \in TypstSpecial THEN <<BSL, in[i]>> ELSE <<in[i]>>])

escapeTypstString(in) ==
    Flatten([i \in 1..Len(in) |->
                IF in[i] = BSL THEN <<BSL, BSL>>
                ELSE IF in[i] = QUOTE THEN <<BSL, QUOTE>>
                ELSE IF in[i] = NL THEN <<BSL, "n">>
                ELSE <<in[i]>>])

indentLines(text, indentLevel) ==
    IF indentLevel = 0 THEN text
    ELSE LET indent == Repeat(" ", 2 * indentLevel)
             lines == SplitLines(text)
         IN  Join([i \in 1..Len(lines) |-> indent \o lines[i]], <<NL>>)

isNonEmpty(value) == value # Null /\ Len(value) > 0

normalizeText(value) == IF value = Null THEN <<>> ELSE Trim(value)

\* Array.prototype.filter(isNonEmpty)
RECURSIVE FilterNonEmpty(_)
FilterNonEmpty(values) ==
    IF values = <<>> THEN <<>>
    ELSE (IF isNonEmpty(Head(values)) THEN <<Head(values)>> ELSE <<>>)
         \o FilterNonEmpty(Tail(values))

Mutant_renderTypstArray(items) == <<"(">> \o Join(items, <<",", " ">>) \o <<")">>

renderTypstArray(items) ==
    IF Len(items) = 1 THEN <<"(">> \o items[1] \o <<",", ")">>
    ELSE <<"(">> \o Join(items, <<",", " ">>) \o <<")">>

RECURSIVE RunFrom(_, _)
RunFrom(value, i) ==
    IF i > Len(value) \/ value[i] # BACKTICK THEN 0 ELSE 1 + RunFrom(value, i + 1)

maxBacktickRun(value) ==
    LET runs == {RunFrom(value, i) : i \in 1..Len(value)} \cup {0}
    IN  CHOOSE m \in runs : \A r \in runs : m >= r

(***************************************************************************)
(* Maps (Map<string, T>) are functions from keys to values.                *)
(***************************************************************************)
EmptyMap == <<>>
MapHas(m, k) == k \in DOMAIN m
MapSet(m, k, v) == [x \in (DOMAIN m) \cup {k} |-> IF x = k THEN v ELSE m[x]]

(***************************************************************************)
(* The error channel.  A renderer returns, with its string s, the calls it *)
(* made to context.onError (log), whether it set                           *)
(* context.warnings.externalImages (ext) and whether it threw (thrown).    *)
(***************************************************************************)
ConversionError(sev, msg, ctxLabel, det) ==
    [severity |-> sev, message |-> msg, context |-> ctxLabel, details |-> det]

NoDetails == [none |-> TRUE]

\* if (context.onError) context.onError(e)
Report(onError, e) == IF onError THEN <<e>> ELSE <<>>

Ok(str) == [s |-> str, log |-> <<>>, ext |-> FALSE, thrown |-> FALSE]
\* a TypeError: a method called on undefined
Throw == [s |-> Null, log |-> <<>>, ext |-> FALSE, thrown |-> TRUE]
OkLog(str, l) == [s |-> str, log |-> l, ext |-> FALSE, thrown |-> FALSE]

\* `${pre}${r}${post}` around a rendering that may have thrown
Wrap(pre, r, post) ==
    IF r.thrown THEN r ELSE [r EXCEPT !.s = pre \o r.s \o post]

(***************************************************************************)
(* src/src/utils.ts: plainTextFromPhrasing.                                *)
(***************************************************************************)
RECURSIVE plainTextFromPhrasing(_, _), plainTextFromPhrasingNode(_, _)

plainTextFromPhrasing(nodes, defs) ==
    Flatten([i \in 1..Len(nodes) |-> plainTextFromPhrasingNode(nodes[i], defs)])

plainTextFromPhrasingNode(node, defs) ==
    \* a value that is undefined is joined as the empty string
    CASE node.type = "text" -> IF node.value = Null THEN <<>> ELSE node.value
      [] node.type \in {"strong", "emphasis"} ->
            plainTextFromPhrasing(node.children, defs)
      [] node.type = "inlineCode" -> IF node.value = Null THEN <<>> ELSE node.value
      [] node.type = "link" -> plainTextFromPhrasing(node.children, defs)
      [] node.type = "linkReference" ->
            LET label == plainTextFromPhrasing(node.children, defs)
                key == ToLowerCase(node.identifier)
            IN  IF Trim(label) # <<>> THEN label
                ELSE IF MapHas(defs, key) THEN defs[key].url
                ELSE IF node.label # <<>> THEN node.label
                ELSE node.identifier
      [] node.type = "break" -> <<NL>>
      [] OTHER -> <<>>

(***************************************************************************)
(* src/unnamed/part_007: the inline renderer (module inline-renderer).     *)
(* ctx is the RenderContext: definitions, footnoteDefinitions, onError     *)
(* (whether a callback is present), and with it the number of footnote     *)
(* renderings on the call stack (depth).                                   *)
(***************************************************************************)
RECURSIVE renderInlineList(_, _), renderInlines(_, _), renderInline(_, _),
          renderLink(_, _), renderLinkReference(_, _), renderFootnoteReference(_, _),
          renderBlockList(_, _, _), renderBlock(_, _, _), renderBlockSwitch(_, _, _),
          renderList(_, _, _), renderListItems(_, _, _, _), renderListItem(_, _, _, _),
          renderListItemRest(_, _, _), renderBlockquote(_, _, _), renderTable(_, _, _),
          renderCells(_, _, _)

\* the results of array.map(render): the values, until one rendering throws
NoValues == [vals |-> <<>>, log |-> <<>>, ext |-> FALSE, thrown |-> FALSE]

\* the values pushed for the rendering h, before the values t of the renderings
\* after it; t is not rendered when h threw
ConsValues(pushed, h, t) ==
    IF h.thrown THEN [vals |-> <<>>, log |-> h.log, ext |-> h.ext, thrown |-> TRUE]
    ELSE [vals |-> pushed \o t.vals, log |-> h.log \o t.log,
          ext |-> h.ext \/ t.ext, thrown |-> t.thrown]

Cons(h, t) == ConsValues(<<h.s>>, h, t)

\* values.filter(isNonEmpty).join(sep)
JoinValues(r, sep) ==
    [s |-> IF r.thrown THEN Null ELSE Join(FilterNonEmpty(r.vals), sep),
     log |-> r.log, ext |-> r.ext, thrown |-> r.thrown]

\* nodes.map((node) => renderInline(node, context))
renderInlineList(nodes, ctx) ==
    IF nodes = <<>> THEN NoValues
    ELSE Cons(renderInline(Head(nodes), ctx), renderInlineList(Tail(nodes), ctx))

renderInlines(nodes, ctx) == JoinValues(renderInlineList(nodes, ctx), <<>>)

renderInlineCode(node) ==
    LET value == Flatten([i \in 1..Len(node.value) |->
                    IF node.value[i] = BACKTICK THEN <<BSL, BACKTICK>>
                    ELSE <<node.value[i]>>])
    IN  <<BACKTICK>> \o value \o <<BACKTICK>>

\* /^https?:\/\//i.test(url)
isExternalUrl(url) ==
    \/ StartsWith(ToLowerCase(url), <<"h", "t", "t", "p", ":", "/", "/">>)
    \/ StartsWith(ToLowerCase(url), <<"h", "t", "t", "p", "s", ":", "/", "/">>)

Mutant_renderImage(node) ==
    IF isExternalUrl(node.url)
    THEN Ok(<<"#external-image(", NL, " ", " ", QUOTE>>
            \o escapeTypstString(node.url) \o <<QUOTE, NL, ")">>)
    ELSE Ok(<<"#image(", QUOTE>> \o escapeTypstString(node.url) \o <<QUOTE, ")">>)

renderImage(node) ==
    IF isExternalUrl(node.url)
    THEN [s |-> <<"#external-image(", NL, " ", " ", QUOTE>>
                \o escapeTypstString(node.url) \o <<QUOTE, NL, ")">>,
          log |-> <<>>, ext |-> TRUE, thrown |-> FALSE]
    ELSE Ok(<<"#image(", QUOTE>> \o escapeTypstString(node.url) \o <<QUOTE, ")">>)

\* `#link("${url}")[${label}]`
LinkMarkup(url, label) ==
    <<"#link(", QUOTE>> \o url \o <<QUOTE, ")", "[">> \o label \o <<"]">>

\* the link to url around the rendered label, or around the URL when it is blank
LinkAround(url, label) ==
    IF label.thrown THEN label
    ELSE IF Trim(label.s) = <<>>
    THEN [label EXCEPT !.s = LinkMarkup(escapeTypstString(url), escapeTypstText(url))]
    ELSE [label EXCEPT !.s = LinkMarkup(escapeTypstString(url), label.s)]

renderLink(node, ctx) == LinkAround(node.url, renderInlines(node.children, ctx))

Mutant_LinkReferenceFallback(node, label) == label

\* label || escapeTypstText(node.label || node.identifier)
LinkReferenceFallback(node, label) ==
    IF label # <<>> THEN label
    ELSE escapeTypstText(IF node.label # <<>> THEN node.label ELSE node.identifier)

UnresolvedLinkWarning(node) ==
    ConversionError("warning",
        <<"Link reference [">> \o node.identifier \o <<"] has no matching definition">>,
        "inline rendering", [identifier |-> node.identifier])

\* the fallback text of an unresolved reference is produced inside the
\* if (context.onError) branch
Mutant_resolveLinkReference(node, ctx, key, label) ==
    IF label.thrown THEN label
    ELSE IF ~MapHas(ctx.definitions, key)
    THEN [label EXCEPT
            !.s = IF ctx.onError THEN LinkReferenceFallback(node, label.s) ELSE <<>>,
            !.log = label.log \o Report(ctx.onError, UnresolvedLinkWarning(node))]
    ELSE LinkAround(ctx.definitions[key].url, label)

\* renderLinkReference after definitions.get(key) and renderInlines(node.children)
resolveLinkReference(node, ctx, key, label) ==
    IF label.thrown THEN label
    ELSE IF ~MapHas(ctx.definitions, key)
    THEN [label EXCEPT
            !.s = LinkReferenceFallback(node, label.s),
            !.log = label.log \o Report(ctx.onError, UnresolvedLinkWarning(node))]
    ELSE LinkAround(ctx.definitions[key].url, label)

Mutant_renderLinkReference(node, ctx) ==
    resolveLinkReference(node, ctx, node.identifier, renderInlines(node.children, ctx))

renderLinkReference(node, ctx) ==
    resolveLinkReference(node, ctx, ToLowerCase(node.identifier),
                         renderInlines(node.children, ctx))

UnresolvedFootnoteWarning(node) ==
    ConversionError("warning",
        <<"Footnote reference [^">> \o node.identifier
            \o <<"] has no matching definition">>,
        "inline rendering", [identifier |-> node.identifier])

FootnoteError(node) ==
    ConversionError("error",
        <<"Error rendering footnote [^">> \o node.identifier \o <<"]: ">>,
        "inline rendering", NoDetails)

\* the footnote around the rendered blocks r of its definition, and the catch
FootnoteAround(node, ctx, r) ==
    IF r.thrown
    THEN [s |-> <<>>, ext |-> r.ext, thrown |-> FALSE,
          log |-> r.log \o Report(ctx.onError, FootnoteError(node))]
    ELSE [s |-> <<"#footnote[">> \o Trim(Join(FilterNonEmpty(r.vals), <<" ">>))
                \o <<"]">>,
          log |-> r.log, ext |-> r.ext, thrown |-> FALSE]

\* a RangeError raised by a call made inside the footnote's try: the stack is full
StackOverflow == [vals |-> <<>>, log |-> <<>>, ext |-> FALSE, thrown |-> TRUE]

Mutant_renderFootnoteReference(node, ctx) ==
    IF ~MapHas(ctx.footnoteDefinitions, ToLowerCase(node.identifier))
    THEN OkLog(escapeTypstText(<<"[", "^">> \o node.identifier \o <<"]">>),
               Report(ctx.onError, UnresolvedFootnoteWarning(node)))
    ELSE FootnoteAround(node, ctx,
            IF ctx.depth >= MaxStack THEN StackOverflow
            ELSE renderBlockList(
                    ctx.footnoteDefinitions[ToLowerCase(node.identifier)].children, 0,
                    [ctx EXCEPT !.depth = @ + 1]))

renderFootnoteReference(node, ctx) ==
    IF ~MapHas(ctx.footnoteDefinitions, ToLowerCase(node.identifier))
    THEN OkLog(<<>>, Report(ctx.onError, UnresolvedFootnoteWarning(node)))
    ELSE FootnoteAround(node, ctx,
            IF ctx.depth >= MaxStack THEN StackOverflow
            ELSE renderBlockList(
                    ctx.footnoteDefinitions[ToLowerCase(node.identifier)].children, 0,
                    [ctx EXCEPT !.depth = @ + 1]))

\* tex2typst is an external converter: node.tex says whether it converts this
\* LaTeX (ok) and to what (out); node.span is position.end.offset -
\* position.start.offset, or -1 when the node has no position
MathWarning(what, ctxLabel, value) ==
    ConversionError("warning", <<what>>, ctxLabel, [latex |-> value])

\* the fallback always renders the span inline
Mutant_renderInlineMath(node, ctx) ==
    IF node.tex.ok
    THEN Ok(IF node.span # -1 /\ node.span >= Len(Trim(node.value)) + 4
            THEN <<"$", " ">> \o node.tex.out \o <<" ", "$">>
            ELSE <<"$">> \o node.tex.out \o <<"$">>)
    ELSE OkLog(<<"$">> \o Trim(node.value) \o <<"$">>,
               Report(ctx.onError,
                      MathWarning("Failed to convert inline math LaTeX to Typst: ",
                                  "inline math rendering", Trim(node.value))))

renderInlineMath(node, ctx) ==
    LET value == Trim(node.value)
        isDisplayMath == node.span # -1 /\ node.span >= Len(value) + 4
    IN  IF node.tex.ok
        THEN Ok(IF isDisplayMath THEN <<"$", " ">> \o node.tex.out \o <<" ", "$">>
                ELSE <<"$">> \o node.tex.out \o <<"$">>)
        ELSE OkLog(IF isDisplayMath THEN <<"$", " ">> \o value \o <<" ", "$">>
                   ELSE <<"$">> \o value \o <<"$">>,
                   Report(ctx.onError,
                          MathWarning("Failed to convert inline math LaTeX to Typst: ",
                                      "inline math rendering", value)))

renderInline(node, ctx) ==
    CASE node.type = "text" -> Ok(escapeTypstText(node.value))
      [] node.type = "strong" ->
            Wrap(<<"*">>, renderInlines(node.children, ctx), <<"*">>)
      [] node.type = "emphasis" ->
            Wrap(<<"_">>, renderInlines(node.children, ctx), <<"_">>)
      [] node.type = "delete" ->
            Wrap(<<"#strike[">>, renderInlines(node.children, ctx), <<"]">>)
      [] node.type = "mark" ->
            Wrap(<<"#highlight[">>, renderInlines(node.children, ctx), <<"]">>)
      [] node.type = "subscript" ->
            Wrap(<<"#sub[">>, renderInlines(node.children, ctx), <<"]">>)
      [] node.type = "superscript" ->
            Wrap(<<"#super[">>, renderInlines(node.children, ctx), <<"]">>)
      [] node.type = "footnoteReference" -> renderFootnoteReference(node, ctx)
      \* renderInlineCode calls node.value.replace: a TypeError when value is
      \* undefined
      [] node.type = "inlineCode" ->
            IF node.value = Null THEN Throw ELSE Ok(renderInlineCode(node))
      [] node.type = "inlineMath" -> renderInlineMath(node, ctx)
      [] node.type = "image" -> renderImage(node)
      [] node.type = "link" -> renderLink(node, ctx)
      [] node.type = "linkReference" -> renderLinkReference(node, ctx)
      [] node.type = "break" -> Ok(<<BSL, NL>>)
      [] node.type = "html" -> Ok(escapeTypstText(node.value))
      [] OTHER -> Ok(Null)

(***************************************************************************)
(* src/src/utils.ts: the block renderer (module block-renderer).           *)
(***************************************************************************)
\* nodes.map((child) => renderBlock(child, indentLevel, context))
renderBlockList(nodes, indentLevel, ctx) ==
    IF nodes = <<>> THEN NoValues
    ELSE Cons(renderBlock(Head(nodes), indentLevel, ctx),
              renderBlockList(Tail(nodes), indentLevel, ctx))

renderMathBlock(node, indentLevel, ctx) ==
    LET value == Trim(node.value)
    IN  IF node.tex.ok
        THEN Ok(indentLines(<<"$", " ">> \o node.tex.out \o <<" ", "$">>, indentLevel))
        ELSE OkLog(indentLines(<<"$", " ">> \o value \o <<" ", "$">>, indentLevel),
                   Report(ctx.onError,
                          MathWarning("Failed to convert block math LaTeX to Typst: ",
                                      "block math rendering", value)))

Min(a, b) == IF a < b THEN a ELSE b
Max(a, b) == IF a > b THEN a ELSE b

\* indentLines(`${prefix}${r}`, indentLevel) of a rendering that may have thrown
IndentedAfter(prefix, r, indentLevel) ==
    IF r.thrown THEN r ELSE [r EXCEPT !.s = indentLines(prefix \o r.s, indentLevel)]

renderHeading(node, indentLevel, ctx) ==
    IndentedAfter(Repeat("=", Min(Max(node.depth, 1), 6)) \o <<" ">>,
                  renderInlines(node.children, ctx), indentLevel)

TocText == <<"[", "t", "o", "c", "]">>

renderParagraph(node, ctx) ==
    LET text == ToLowerCase(Trim(plainTextFromPhrasing(node.children, ctx.definitions)))
    IN  IF text = TocText THEN Ok(<<"#outline(title: auto, indent: auto)">>)
        ELSE renderInlines(node.children, ctx)

renderCodeBlock(node, indentLevel) ==
    LET info == IF node.lang # Null /\ Trim(node.lang) # <<>> THEN Trim(node.lang)
                ELSE <<>>
        value == IF node.value # <<>> /\ node.value[Len(node.value)] = NL
                 THEN SubSeq(node.value, 1, Len(node.value) - 1)
                 ELSE node.value
        fence == Repeat(BACKTICK, Max(3, maxBacktickRun(value) + 1))
        open == fence \o info
    IN  Join(<<indentLines(open, indentLevel), indentLines(value, indentLevel),
               indentLines(fence, indentLevel)>>, <<NL>>)

\* node.children.map((item) => renderListItem(item, marker, indentLevel, context))
renderListItems(children, marker, indentLevel, ctx) ==
    IF children = <<>> THEN NoValues
    ELSE Cons(renderListItem(Head(children), marker, indentLevel, ctx),
              renderListItems(Tail(children), marker, indentLevel, ctx))

renderList(node, indentLevel, ctx) ==
    JoinValues(renderListItems(node.children, IF node.ordered THEN "+" ELSE "-",
                               indentLevel, ctx),
               <<NL>>)

\* lines.push(rendered) for a nested list, if (rendered) lines.push(rendered) for
\* another block
ConsLine(isList, h, t) ==
    ConsValues(IF isList \/ isNonEmpty(h.s) THEN <<h.s>> ELSE <<>>, h, t)

\* the loop over the children after the marker line: the lines it pushes
renderListItemRest(children, nestedIndentLevel, ctx) ==
    IF children = <<>> THEN NoValues
    ELSE ConsLine(Head(children).type = "list",
                  IF Head(children).type = "list"
                  THEN renderList(Head(children), nestedIndentLevel, ctx)
                  ELSE renderBlock(Head(children), nestedIndentLevel, ctx),
                  renderListItemRest(Tail(children), nestedIndentLevel, ctx))

\* the marker line, from the rendered first paragraph, and the lines after it
ListItemLines(line, first, rest) ==
    IF first.thrown THEN first
    ELSE [s |-> IF rest.thrown THEN Null
                ELSE Join(<<line \o first.s>> \o rest.vals, <<NL>>),
          log |-> first.log \o rest.log, ext |-> first.ext \/ rest.ext,
          thrown |-> rest.thrown]

renderListItem(node, marker, indentLevel, ctx) ==
    IF node.children # <<>> /\ node.children[1].type = "paragraph"
    THEN ListItemLines(Repeat(" ", 2 * indentLevel) \o <<marker, " ">>,
                       renderParagraph(node.children[1], ctx),
                       renderListItemRest(Tail(node.children), indentLevel + 1, ctx))
    ELSE ListItemLines(Repeat(" ", 2 * indentLevel) \o <<marker>>, Ok(<<>>),
                       renderListItemRest(node.children, indentLevel + 1, ctx))

TableWarning(msg) == ConversionError("warning", <<msg>>, "table rendering", NoDetails)

TableError ==
    ConversionError("error", <<"Error rendering table: ">>, "table rendering", NoDetails)

\* alignMap[a ?? 'left'] ?? 'left'
alignOf(a) == IF a \in {"left", "right", "center"} THEN a ELSE "left"

\* `[*${content}*]` for a header cell, `[${content}]` for a data cell
ConsCell(header, h, t) ==
    ConsValues(IF header THEN << <<"[", "*">> \o h.s \o <<"*", "]">> >>
               ELSE << <<"[">> \o h.s \o <<"]">> >>, h, t)

\* the cells of the rows, in order
renderCells(cells, ctx, header) ==
    IF cells = <<>> THEN NoValues
    ELSE ConsCell(header, renderInlines(Head(cells).children, ctx),
                  renderCells(Tail(cells), ctx, header))

\* the catch of renderTable
TableCaught(ctx, r) ==
    [s |-> <<>>, ext |-> r.ext, thrown |-> FALSE,
     log |-> r.log \o Report(ctx.onError, TableError)]

\* the lines of #table(...), from the rendered header cells and data cells
TableLines(node, indentLevel, ctx, headerCells, dataCells) ==
    LET colCount == Len(node.children[1].children)
        align == IF node.align = Null THEN <<>> ELSE node.align
        aligns == [i \in 1..Len(align) |-> <<alignOf(align[i])>>]
        lines == <<
            <<"#table(">>,
            <<" ", " ", "columns: (">>
                \o Join([i \in 1..colCount |-> <<"1fr">>], <<",", " ">>) \o <<")", ",">>,
            <<" ", " ", "align: (">>
                \o Join(SubSeq(aligns, 1, Min(colCount, Len(align))), <<",", " ">>)
                \o <<")", ",">>,
            <<" ", " ", "table.header(">> \o Join(headerCells.vals, <<",", " ">>)
                \o <<")", ",">>,
            <<" ", " ">> \o Join(dataCells.vals, <<",", " ">>),
            <<")">> >>
    IN  IF headerCells.thrown THEN TableCaught(ctx, headerCells)
        ELSE IF dataCells.thrown
        THEN TableCaught(ctx, [log |-> headerCells.log \o dataCells.log,
                               ext |-> headerCells.ext \/ dataCells.ext])
        ELSE [s |-> indentLines(Join(lines, <<NL>>), indentLevel),
              log |-> headerCells.log \o dataCells.log,
              ext |-> headerCells.ext \/ dataCells.ext, thrown |-> FALSE]

renderTable(node, indentLevel, ctx) ==
    IF Len(node.children) = 0
    THEN OkLog(<<>>, Report(ctx.onError, TableWarning("Empty table found (no rows)")))
    ELSE IF Len(node.children[1].children) = 0
    THEN OkLog(<<>>, Report(ctx.onError, TableWarning("Table has no columns")))
    ELSE TableLines(node, indentLevel, ctx,
            renderCells(node.children[1].children, ctx, TRUE),
            renderCells(Flatten([i \in 1..(Len(node.children) - 1) |->
                                    node.children[i + 1].children]), ctx, FALSE))

\* the quote around the rendered children r
QuoteAround(indentLevel, r) ==
    IF r.thrown THEN [s |-> Null, log |-> r.log, ext |-> r.ext, thrown |-> TRUE]
    ELSE [s |-> IF Trim(Join(FilterNonEmpty(r.vals), <<NL, NL>>)) = <<>>
                THEN indentLines(<<"#quote[">>, indentLevel) \o <<NL>>
                     \o indentLines(<<"]">>, indentLevel)
                ELSE Join(<<indentLines(<<"#quote[">>, indentLevel),
                            indentLines(Join(FilterNonEmpty(r.vals), <<NL, NL>>),
                                        indentLevel + 1),
                            indentLines(<<"]">>, indentLevel)>>, <<NL>>),
          log |-> r.log, ext |-> r.ext, thrown |-> FALSE]

renderBlockquote(node, indentLevel, ctx) ==
    QuoteAround(indentLevel, renderBlockList(node.children, 0, ctx))

UnknownBlockWarning(node) ==
    ConversionError("warning", <<"Unknown block node type: ", node.type>>,
                    "block rendering", [nodeType |-> node.type])

BlockError(node) ==
    ConversionError("error", <<"Error rendering block node: ">>,
                    "block rendering", [nodeType |-> node.type])

\* the switch of renderBlock, inside its try
renderBlockSwitch(node, indentLevel, ctx) ==
    CASE node.type \in {"yaml", "definition", "footnoteDefinition"} -> Ok(Null)
      [] node.type = "heading" -> renderHeading(node, indentLevel, ctx)
      [] node.type = "paragraph" ->
            IndentedAfter(<<>>, renderParagraph(node, ctx), indentLevel)
      [] node.type = "list" -> renderList(node, indentLevel, ctx)
      [] node.type = "code" -> Ok(renderCodeBlock(node, indentLevel))
      [] node.type = "blockquote" -> renderBlockquote(node, indentLevel, ctx)
      [] node.type = "thematicBreak" ->
            Ok(indentLines(<<"#line(length: 100%, stroke: 0.6pt)">>, indentLevel))
      [] node.type = "table" -> renderTable(node, indentLevel, ctx)
      [] node.type = "math" -> renderMathBlock(node, indentLevel, ctx)
      [] OTHER -> OkLog(Null, Report(ctx.onError, UnknownBlockWarning(node)))

Mutant_BlockCaught(node, ctx, r) == r

\* the catch of renderBlock
BlockCaught(node, ctx, r) ==
    IF r.thrown
    THEN [s |-> Null, ext |-> r.ext, thrown |-> FALSE,
          log |-> r.log \o Report(ctx.onError, BlockError(node))]
    ELSE r

\* renderBlock: the switch, and the catch around it
renderBlock(node, indentLevel, ctx) ==
    BlockCaught(node, ctx, renderBlockSwitch(node, indentLevel, ctx))

(***************************************************************************)
(* src/unnamed/part_007: the collectors (module collectors).               *)
(***************************************************************************)
Mutant_DuplicateDefinitionWarning(def) ==
    ConversionError("warning",
        <<"Duplicate link/image definition found: [">> \o def.identifier \o <<"]">>,
        "definition collection",
        [identifier |-> ToLowerCase(def.identifier), url |-> def.url])

DuplicateDefinitionWarning(def) ==
    ConversionError("warning",
        <<"Duplicate link/image definition found: [">> \o def.identifier \o <<"]">>,
        "definition collection", [identifier |-> def.identifier, url |-> def.url])

RECURSIVE collectDefinitionsFrom(_, _, _)
collectDefinitionsFrom(children, acc, onError) ==
    IF children = <<>> THEN acc
    ELSE LET node == Head(children)
             identifier == ToLowerCase(node.identifier)
         IN  IF node.type # "definition"
             THEN collectDefinitionsFrom(Tail(children), acc, onError)
             ELSE collectDefinitionsFrom(Tail(children),
                    [map |-> MapSet(acc.map, identifier, node),
                     log |-> IF MapHas(acc.map, identifier)
                             THEN acc.log \o Report(onError, DuplicateDefinitionWarning(node))
                             ELSE acc.log],
                    onError)

Mutant_collectDefinitions(root, onError) ==
    LET RECURSIVE first(_, _)
        first(children, acc) ==
            IF children = <<>> THEN acc
            ELSE LET node == Head(children)
                     identifier == ToLowerCase(node.identifier)
                 IN  IF node.type # "definition" THEN first(Tail(children), acc)
                     ELSE IF MapHas(acc.map, identifier)
                     THEN first(Tail(children),
                            [acc EXCEPT !.log = acc.log
                                \o Report(onError, DuplicateDefinitionWarning(node))])
                     ELSE first(Tail(children),
                            [acc EXCEPT !.map = MapSet(acc.map, identifier, node)])
    IN  first(root, [map |-> EmptyMap, log |-> <<>>])

collectDefinitions(root, onError) ==
    collectDefinitionsFrom(root, [map |-> EmptyMap, log |-> <<>>], onError)

DuplicateFootnoteWarning(def) ==
    ConversionError("warning",
        <<"Duplicate footnote definition found: [^">> \o def.identifier \o <<"]">>,
        "footnote collection", [identifier |-> def.identifier])

RECURSIVE collectFootnotesFrom(_, _, _)
collectFootnotesFrom(children, acc, onError) ==
    IF children = <<>> THEN acc
    ELSE LET node == Head(children)
             identifier == ToLowerCase(node.identifier)
         IN  IF node.type # "footnoteDefinition"
             THEN collectFootnotesFrom(Tail(children), acc, onError)
             ELSE collectFootnotesFrom(Tail(children),
                    [map |-> MapSet(acc.map, identifier, node),
                     log |-> IF MapHas(acc.map, identifier)
                             THEN acc.log \o Report(onError, DuplicateFootnoteWarning(node))
                             ELSE acc.log],
                    onError)

collectFootnotes(root, onError) ==
    collectFootnotesFrom(root, [map |-> EmptyMap, log |-> <<>>], onError)

\* {title, index}, or null: index is 1-based here
NoLeadingH1 == [found |-> FALSE, title |-> <<>>, index |-> 0]

RECURSIVE findLeadingH1From(_, _, _)
findLeadingH1From(root, i, defs) ==
    IF i > Len(root) THEN NoLeadingH1
    ELSE LET node == root[i]
         IN  IF node.type \in {"yaml", "definition"}
             THEN findLeadingH1From(root, i + 1, defs)
             ELSE IF node.type # "heading" THEN NoLeadingH1
             ELSE IF node.depth # 1 THEN NoLeadingH1
             ELSE LET title == Trim(plainTextFromPhrasing(node.children, defs))
                  IN  IF title # <<>>
                      THEN [found |-> TRUE, title |-> title, index |-> i]
                      ELSE NoLeadingH1

Mutant_findLeadingH1(root, defs) ==
    LET found == {i \in 1..Len(root) :
                    /\ root[i].type = "heading" /\ root[i].depth = 1
                    /\ Trim(plainTextFromPhrasing(root[i].children, defs)) # <<>>}
        first == CHOOSE i \in found : \A j \in found : i <= j
    IN  IF found = {} THEN NoLeadingH1
        ELSE [found |-> TRUE, index |-> first,
              title |-> Trim(plainTextFromPhrasing(root[first].children, defs))]

findLeadingH1(root, defs) == findLeadingH1From(root, 1, defs)

(***************************************************************************)
(* JavaScript values of the options, of the decoded YAML and of the        *)
(* frontmatter: a type tag t and a value v.                                *)
(***************************************************************************)
Undefined == [t |-> "undefined", v |-> <<>>]
Str(x) == [t |-> "string", v |-> x]
Arr(xs) == [t |-> "array", v |-> xs]
Num == [t |-> "number", v |-> <<>>]
\* a YAML timestamp: a Date, v being toISOString().split('T')[0]
DateObj(iso) == [t |-> "date", v |-> iso]

IsDef(x) == x.t # "undefined"
\* a ?? b
Coalesce(a, b) == IF IsDef(a) THEN a ELSE b
\* truthiness of an optional string
Truthy(x) == x.t = "string" /\ x.v # <<>>

\* array.filter(a => typeof a === 'string'), as an array of strings
RECURSIVE StringsOf(_)
StringsOf(xs) ==
    IF xs = <<>> THEN <<>>
    ELSE (IF Head(xs).t = "string" THEN <<Head(xs).v>> ELSE <<>>) \o StringsOf(Tail(xs))

(***************************************************************************)
(* src/src/utils.ts: coerceLanguage and coerceRegion.  The tables of the   *)
(* packages langs and country-list are external: LangTable and RegionTable *)
(* hold the entries the model uses.                                        *)
(***************************************************************************)
LangTable == <<
    [name |-> <<"E", "n", "g", "l", "i", "s", "h">>, iso1 |-> <<"e", "n">>,
     iso3 |-> <<"e", "n", "g">>],
    [name |-> <<"S", "p", "a", "n", "i", "s", "h">>, iso1 |-> <<"e", "s">>,
     iso3 |-> <<"s", "p", "a">>] >>

RegionTable == <<
    [name |-> <<"S", "p", "a", "i", "n">>, code |-> <<"E", "S">>],
    [name |-> <<"C", "u", "b", "a">>, code |-> <<"C", "U">>] >>

\* v.split(/[-_]/)[0]
FirstLangPart(v) ==
    LET seps == {i \in 1..Len(v) : v[i] \in {"-", "_"}}
    IN  IF seps = {} THEN v
        ELSE SubSeq(v, 1, (CHOOSE i \in seps : \A j \in seps : i <= j) - 1)

coerceLanguage(value) ==
    IF ~Truthy(value) THEN Undefined
    ELSE LET v == Trim(value.v)
             langPart == ToLowerCase(FirstLangPart(v))
             byCode == {i \in 1..Len(LangTable) : LangTable[i].iso1 = langPart}
             byName == {i \in 1..Len(LangTable) :
                            ToLowerCase(LangTable[i].name) = ToLowerCase(v)}
             by3 == {i \in 1..Len(LangTable) : LangTable[i].iso3 = ToLowerCase(v)}
         IN  IF v = <<>> THEN Undefined
             ELSE IF byCode # {} THEN Str(langPart)
             ELSE IF byName # {} THEN Str(LangTable[CHOOSE i \in byName : TRUE].iso1)
             ELSE IF by3 # {} THEN Str(LangTable[CHOOSE i \in by3 : TRUE].iso1)
             ELSE Undefined

coerceRegion(value) ==
    IF ~Truthy(value) THEN Undefined
    ELSE LET v == Trim(value.v)
             upperValue == ToUpperCase(v)
             byCode == {i \in 1..Len(RegionTable) : RegionTable[i].code = upperValue}
             byName == {i \in 1..Len(RegionTable) :
                            ToLowerCase(RegionTable[i].name) = ToLowerCase(v)}
         IN  IF v = <<>> THEN Undefined
             ELSE IF byCode # {} THEN Str(upperValue)
             ELSE IF byName # {}
             THEN Str(ToUpperCase(RegionTable[CHOOSE i \in byName : TRUE].code))
             ELSE Undefined

(***************************************************************************)
(* src/src/utils.ts: the frontmatter stage (module frontmatter).           *)
(***************************************************************************)
EmptyFrontmatter ==
    [title |-> Undefined, author |-> Undefined, authors |-> Undefined,
     description |-> Undefined, keywords |-> Undefined, date |-> Undefined,
     abstract |-> Undefined, lang |-> Undefined, language |-> Undefined,
     region |-> Undefined]

FrontmatterWarning(msg) ==
    ConversionError("warning", <<msg>>, "frontmatter parsing", NoDetails)

\* parsed[key] when it is a string, else undefined
StringField(parsed, key) ==
    IF key \in DOMAIN parsed /\ parsed[key].t = "string" THEN parsed[key] ELSE Undefined

\* parsed[key] when it is an array, filtered to its strings, else undefined
ArrayField(parsed, key) ==
    IF key \in DOMAIN parsed /\ parsed[key].t = "array"
    THEN Arr(StringsOf(parsed[key].v)) ELSE Undefined

\* yaml is what js-yaml makes of the block: kind "throws", kind "scalar" (empty,
\* or not an object) or kind "object" with the mapping in fields
parseFrontmatterYaml(yaml, onError) ==
    IF yaml.kind = "throws"
    THEN [fm |-> EmptyFrontmatter,
          log |-> Report(onError, FrontmatterWarning("Failed to parse YAML frontmatter: "))]
    ELSE IF yaml.kind # "object"
    THEN [fm |-> EmptyFrontmatter,
          log |-> Report(onError,
                    FrontmatterWarning("YAML frontmatter is empty or not an object"))]
    ELSE LET parsed == yaml.fields
             hasAuthor == "author" \in DOMAIN parsed
         IN  [fm |->
                [title |-> StringField(parsed, "title"),
                 author |-> IF ~hasAuthor THEN Undefined
                            ELSE IF parsed["author"].t = "string" THEN parsed["author"]
                            ELSE IF parsed["author"].t = "array"
                            THEN Arr(StringsOf(parsed["author"].v))
                            ELSE Undefined,
                 authors |-> ArrayField(parsed, "authors"),
                 description |-> StringField(parsed, "description"),
                 keywords |-> ArrayField(parsed, "keywords"),
                 date |-> IF "date" \notin DOMAIN parsed THEN Undefined
                          ELSE IF parsed["date"].t = "string" THEN parsed["date"]
                          ELSE IF parsed["date"].t = "date" THEN Str(parsed["date"].v)
                          ELSE Undefined,
                 abstract |-> StringField(parsed, "abstract"),
                 lang |-> StringField(parsed, "lang"),
                 language |-> StringField(parsed, "language"),
                 region |-> StringField(parsed, "region")],
              log |-> IF hasAuthor /\ parsed["author"].t \notin {"string", "array"}
                      THEN Report(onError, FrontmatterWarning(
                        "Frontmatter \"author\" field must be a string or array of strings"))
                      ELSE <<>>]

parseFrontmatter(root, onError) ==
    LET yamls == {i \in 1..Len(root) : root[i].type = "yaml"}
        yamlNode == root[CHOOSE i \in yamls : \A j \in yamls : i <= j]
    IN  IF yamls = {} \/ yamlNode.value = <<>>
        THEN [fm |-> EmptyFrontmatter, log |-> <<>>]
        ELSE parseFrontmatterYaml(yamlNode.yaml, onError)

Digits == <<"0", "1", "2", "3", "4", "5", "6", "7", "8", "9">>
IsDigit(c) == \E d \in 1..10 : Digits[d] = c
DigitValue(c) == (CHOOSE d \in 1..10 : Digits[d] = c) - 1

\* parseInt(text, 10) of a text of digits
RECURSIVE parseInt(_)
parseInt(text) ==
    IF text = <<>> THEN 0
    ELSE 10 * parseInt(SubSeq(text, 1, Len(text) - 1)) + DigitValue(text[Len(text)])

\* `${n}` of a number n >= 0
RECURSIVE NumberToString(_)
NumberToString(n) ==
    IF n < 10 THEN <<Digits[n + 1]>>
    ELSE NumberToString(n \div 10) \o <<Digits[(n % 10) + 1]>>

\* /^(\d{4})-(\d{1,2})-(\d{1,2})$/.exec(text): the three groups, or <<>>
IsoMatch(text) ==
    LET dashes == {i \in 1..Len(text) : text[i] = "-"}
        d1 == CHOOSE i \in dashes : \A j \in dashes : i <= j
        d2 == CHOOSE i \in dashes : \A j \in dashes : i >= j
        year == SubSeq(text, 1, d1 - 1)
        month == SubSeq(text, d1 + 1, d2 - 1)
        day == SubSeq(text, d2 + 1, Len(text))
        allDigits(x) == \A i \in 1..Len(x) : IsDigit(x[i])
    IN  IF /\ Cardinality(dashes) = 2
           /\ Len(year) = 4 /\ Len(month) \in 1..2 /\ Len(day) \in 1..2
           /\ allDigits(year) /\ allDigits(month) /\ allDigits(day)
        THEN <<year, month, day>>
        ELSE <<>>

Mutant_parseDate(value) ==
    LET v == ToLowerCase(Trim(value))
        isoMatch == IsoMatch(Trim(value))
    IN  IF v = <<"a", "u", "t", "o">> THEN <<"auto">>
        ELSE IF v = <<"n", "o", "n", "e">> THEN <<"none">>
        ELSE IF isoMatch # <<>>
        THEN <<"datetime(day: ">> \o NumberToString(parseInt(isoMatch[2]))
             \o <<", month: ">> \o NumberToString(parseInt(isoMatch[3]))
             \o <<", year: ">> \o NumberToString(parseInt(isoMatch[1])) \o <<")">>
        ELSE <<"auto">>

parseDate(value) ==
    LET v == ToLowerCase(Trim(value))
        isoMatch == IsoMatch(Trim(value))
    IN  IF v = <<"a", "u", "t", "o">> THEN <<"auto">>
        ELSE IF v = <<"n", "o", "n", "e">> THEN <<"none">>
        ELSE IF isoMatch # <<>>
        THEN <<"datetime(day: ">> \o NumberToString(parseInt(isoMatch[3]))
             \o <<", month: ">> \o NumberToString(parseInt(isoMatch[2]))
             \o <<", year: ">> \o NumberToString(parseInt(isoMatch[1])) \o <<")">>
        ELSE <<"auto">>

\* typeof x === 'string' ? [x] : x
AuthorAsArray(author) == IF author.t = "string" THEN Arr(<<author.v>>) ELSE author

Mutant_mergeMetadata(opts, fm, leadingTitle) ==
    LET optionsAuthors ==
            Coalesce(Coalesce(opts.authors, AuthorAsArray(opts.author)), Arr(<<>>)).v
        frontmatterAuthors ==
            Coalesce(Coalesce(fm.authors, AuthorAsArray(fm.author)), Arr(<<>>)).v
    IN  [title |-> Coalesce(Coalesce(Coalesce(fm.title, opts.title), leadingTitle),
                            Str(<<>>)).v,
         authors |-> IF Len(optionsAuthors) > 0 THEN optionsAuthors
                     ELSE frontmatterAuthors,
         description |-> Coalesce(opts.description, fm.description),
         keywords |-> Coalesce(opts.keywords, fm.keywords),
         date |-> Coalesce(opts.date, fm.date),
         abstract |-> Coalesce(opts.abstract, fm.abstract),
         lang |-> coerceLanguage(Coalesce(Coalesce(Coalesce(opts.lang, opts.language),
                                                   fm.lang), fm.language)),
         region |-> coerceRegion(Coalesce(opts.region, fm.region))]

\* leadingTitle is Str(title) or Undefined (null)
mergeMetadata(opts, fm, leadingTitle) ==
    LET optionsAuthors ==
            Coalesce(Coalesce(opts.authors, AuthorAsArray(opts.author)), Arr(<<>>)).v
        frontmatterAuthors ==
            Coalesce(Coalesce(fm.authors, AuthorAsArray(fm.author)), Arr(<<>>)).v
    IN  [title |-> Coalesce(Coalesce(Coalesce(opts.title, fm.title), leadingTitle),
                            Str(<<>>)).v,
         authors |-> IF Len(optionsAuthors) > 0 THEN optionsAuthors
                     ELSE frontmatterAuthors,
         description |-> Coalesce(opts.description, fm.description),
         keywords |-> Coalesce(opts.keywords, fm.keywords),
         date |-> Coalesce(opts.date, fm.date),
         abstract |-> Coalesce(opts.abstract, fm.abstract),
         lang |-> coerceLanguage(Coalesce(Coalesce(Coalesce(opts.lang, opts.language),
                                                   fm.lang), fm.language)),
         region |-> coerceRegion(Coalesce(opts.region, fm.region))]

(***************************************************************************)
(* src/src/output-builder.ts: the output assembler.                        *)
(***************************************************************************)
ExternalImageLet == "#let external-image(url) = {"

buildWarningsSection(ext) ==
    IF ~ext THEN Null
    ELSE Join(<<
        <<"// ========================= WARNINGS =========================">>,
        <<>>,
        <<"// ------------------------------------------------------------">>,
        <<"// NOTE: The conversion did not work perfectly due to intrinsic">>,
        <<"// Markdown to Typst limitations. The following custom">>,
        <<"// functions, set or show rules are used to visually display">>,
        <<"// these minor conversion warnings to the user.">>,
        <<"// ------------------------------------------------------------">>,
        <<>>,
        <<"// EXTERNAL IMAGES WERE DETECTED!">>,
        <<ExternalImageLet>>,
        <<" ", " ", "rect(radius: 4pt, inset: 20pt,)[">>,
        <<" ", " ", " ", " ", "#align(center)[">>,
        <<" ", " ", " ", " ", " ", " ", "#text()[">>,
        <<" ", " ", " ", " ", " ", " ", " ", " ", "External image detected: ", BSL>>,
        <<" ", " ", " ", " ", " ", " ", " ", " ", "#link(url)">>,
        <<" ", " ", " ", " ", " ", " ", "]">>,
        <<" ", " ", " ", " ", "]">>,
        <<" ", " ", "]">>,
        <<"}">>,
        <<>>,
        <<"// ============================================================">>
        >>, <<NL>>)

\* `"${escapeTypstString(a)}"` for every element
QuotedItems(items) ==
    [i \in 1..Len(items) |-> <<QUOTE>> \o escapeTypstString(items[i]) \o <<QUOTE>>]

\* the tree's children that are rendered as the body
nodesForBody(root, title, leading) ==
    IF leading.found /\ normalizeText(title) # <<>>
    THEN SubSeq(root, 1, leading.index - 1) \o SubSeq(root, leading.index + 1, Len(root))
    ELSE root

\* the docArgs of #set document(...)
docArgsOf(md) ==
    (IF md.title # <<>> THEN << <<"title: [">> \o md.title \o <<"]">> >> ELSE <<>>)
    \o (IF Len(md.authors) > 0
        THEN << <<"author: ">> \o renderTypstArray(QuotedItems(md.authors)) >>
        ELSE <<>>)
    \o (IF Truthy(md.description)
        THEN << <<"description: [">> \o md.description.v \o <<"]">> >> ELSE <<>>)
    \o (IF IsDef(md.keywords) /\ Len(md.keywords.v) > 0
        THEN << <<"keywords: ">> \o renderTypstArray(QuotedItems(md.keywords.v)) >>
        ELSE <<>>)
    \o (IF Truthy(md.date) THEN << <<"date: ">> \o parseDate(md.date.v) >> ELSE <<>>)

hasMetadataOf(md) ==
    \/ md.title # <<>>
    \/ Len(md.authors) > 0
    \/ Truthy(md.description)
    \/ Truthy(md.date)
    \/ (IsDef(md.keywords) /\ Len(md.keywords.v) > 0)

\* the parts pushed inside if (hasMetadata) { try { ... } }
documentParts(docArgs) ==
    << <<"// ===============  FRONTMATTER  ===============">>, <<>>,
       <<"#set document(">> >>
    \o [i \in 1..Len(docArgs) |->
            <<" ", " ">> \o docArgs[i] \o (IF i = Len(docArgs) THEN <<>> ELSE <<",">>)]
    \o << <<")">> >>

\* if (abstract) { if (parts.length > 0) parts.push(''); parts.push(...) }
withAbstract(parts, md) ==
    IF Truthy(md.abstract)
    THEN parts \o (IF Len(parts) > 0 THEN << <<>> >> ELSE <<>>)
         \o << <<"#let abstract = [">> \o md.abstract.v \o <<"]">> >>
    ELSE parts

centerLinesOf(md) ==
    (IF md.title # <<>> THEN << <<"#title() ", BSL, " ", BSL>> >> ELSE <<>>)
    \o (IF Len(md.authors) > 0
        THEN << <<"#context document.author.join(", QUOTE, ",", " ", QUOTE,
                  ", last: ", QUOTE, " ", "&", " ", QUOTE, ") ", BSL, " ", BSL>> >>
        ELSE <<>>)
    \o (IF Truthy(md.date)
        THEN << <<"#context document.date.display() ", BSL, " ", BSL, " ">> >>
        ELSE <<>>)
    \o (IF Truthy(md.abstract)
        THEN << <<BSL, " ", "*Abstract* ", BSL>>, <<"#abstract">> >>
        ELSE <<>>)

\* the title page
withTitlePage(parts, md) ==
    IF (md.title # <<>> \/ Len(md.authors) > 0 \/ Truthy(md.date) \/ Truthy(md.abstract))
        /\ hasMetadataOf(md)
    THEN parts \o << <<>>, <<"#align(center)[">>,
                     <<" ", " ">> \o Join(centerLinesOf(md), <<" ">>), <<"]">> >>
    ELSE parts

textArgsOf(md) ==
    (IF Truthy(md.lang) THEN << <<"lang: ", QUOTE>> \o md.lang.v \o <<QUOTE>> >>
     ELSE <<>>)
    \o (IF Truthy(md.region)
        THEN << <<"region: ", QUOTE>> \o md.region.v \o <<QUOTE>> >> ELSE <<>>)

\* #set text(...)
withTextSettings(parts, md) ==
    IF Truthy(md.lang) \/ Truthy(md.region)
    THEN parts \o (IF Len(parts) > 0 THEN << <<>> >> ELSE <<>>)
         \o << <<"#set text(">> \o Join(textArgsOf(md), <<",", " ">>) \o <<")">> >>
    ELSE parts

Mutant_withClosingComment(parts, md) ==
    parts \o << <<>>, <<"//  ============================================">> >>

\* the closing comment of the frontmatter section
withClosingComment(parts, md) ==
    IF hasMetadataOf(md)
    THEN parts \o << <<>>, <<"//  ============================================">> >>
    ELSE parts

Mutant_withWarnings(parts, warningsSection) ==
    IF warningsSection # Null THEN << warningsSection, <<>> >> \o parts ELSE parts

withWarnings(parts, warningsSection) ==
    IF warningsSection # Null THEN parts \o << <<>>, warningsSection >> ELSE parts

withBody(parts, body) ==
    (IF Len(parts) > 0 /\ body # <<>> THEN parts \o << <<>> >> ELSE parts)
    \o (IF body # <<>> THEN <<body>> ELSE <<>>)

\* the parts array of buildOutput, given the rendered body and the flag
partsOf(md, body, ext) ==
    withBody(
        withWarnings(
            withClosingComment(
                withTextSettings(
                    withTitlePage(
                        withAbstract(
                            IF hasMetadataOf(md) THEN documentParts(docArgsOf(md))
                            ELSE <<>>,
                            md),
                        md),
                    md),
                md),
            buildWarningsSection(ext)),
        body)

\* return parts.length > 0 ? parts.join('\n') : body
joinParts(parts, body) == IF Len(parts) > 0 THEN Join(parts, <<NL>>) ELSE body

assemble(md, body, ext) == joinParts(partsOf(md, body, ext), body)

(***************************************************************************)
(* The nodes of the documents the model converts.                          *)
(***************************************************************************)
Text(value) == [type |-> "text", value |-> value]
Strong(children) == [type |-> "strong", children |-> children]
Image(url) == [type |-> "image", url |-> url]
Link(url, children) == [type |-> "link", url |-> url, children |-> children]
LinkReference(identifier, label, children) ==
    [type |-> "linkReference", identifier |-> identifier, label |-> label,
     children |-> children]
FootnoteReference(identifier) ==
    [type |-> "footnoteReference", identifier |-> identifier]
InlineCode(value) == [type |-> "inlineCode", value |-> value]
Break == [type |-> "break"]

Paragraph(children) == [type |-> "paragraph", children |-> children]
Heading(depth, children) == [type |-> "heading", depth |-> depth, children |-> children]
Definition(identifier, url) ==
    [type |-> "definition", identifier |-> identifier, url |-> url]
FootnoteDefinition(identifier, children) ==
    [type |-> "footnoteDefinition", identifier |-> identifier, children |-> children]
ListItem(children) == [type |-> "listItem", children |-> children]
List(ordered, children) == [type |-> "list", ordered |-> ordered, children |-> children]
Blockquote(children) == [type |-> "blockquote", children |-> children]
TableCell(children) == [type |-> "tableCell", children |-> children]
TableRow(children) == [type |-> "tableRow", children |-> children]
Table(align, children) == [type |-> "table", align |-> align, children |-> children]
\* an alignment entry that is null (a column without alignment)
AlignNull == "null"
\* value is the raw YAML text, yaml what js-yaml makes of it
Yaml(value, yaml) == [type |-> "yaml", value |-> value, yaml |-> yaml]

HttpUrl == <<"h", "t", "t", "p", ":", "/", "/", "x">>
HttpsUrl == <<"H", "T", "T", "P", "S", ":", "/", "/", "x">>
LocalUrl == <<".", "/", "x">>

(***************************************************************************)
(* The inputs: documents (their parsed trees) and options.                 *)
(***************************************************************************)
EmptyOptions ==
    [title |-> Undefined, author |-> Undefined, authors |-> Undefined,
     description |-> Undefined, keywords |-> Undefined, date |-> Undefined,
     abstract |-> Undefined, lang |-> Undefined, language |-> Undefined,
     region |-> Undefined, useH1AsTitle |-> FALSE, onError |-> FALSE]

\* k definitions of one identifier, written a, A, a, ..., with the URLs u1, u2, ...
DupDefs(k) ==
    [i \in 1..k |-> Definition(IF i % 2 = 1 THEN <<"a">> ELSE <<"A">>,
                               <<"u", Digits[i + 1]>>)]

DefB == Definition(<<"B">>, <<"v">>)
FnF == FootnoteDefinition(<<"F">>, <<Paragraph(<<Text(<<"n">>)>>)>>)
\* a footnote whose body holds an unresolved link reference, an unresolved
\* footnote reference and a remote image
FnG ==
    FootnoteDefinition(<<"g">>,
        <<Paragraph(<<LinkReference(<<"z">>, <<"z">>, <<>>),
                      FootnoteReference(<<"q">>), Image(HttpUrl)>>)>>)

DefSeqs ==
    {DupDefs(k) : k \in 0..MaxDefs}
    \cup {<<DefB>>, <<FnF>>, <<FnG>>, <<DefB, FnF>>, <<FnF, FnG>>,
          DupDefs(2) \o <<FnG>>}

RefA == LinkReference(<<"A">>, <<"A">>, <<Text(<<"l">>)>>)
RefSmallA == LinkReference(<<"a">>, <<"a">>, <<>>)
RefB == LinkReference(<<"b">>, <<"b">>, <<>>)
RefZ == LinkReference(<<"z">>, <<"Z">>, <<>>)

BodyBlocks == <<
    Paragraph(<<Text(<<"t">>), RefA>>),
    Paragraph(<<RefB, Text(<<"_">>)>>),
    Paragraph(<<Text(<<"t">>), FootnoteReference(<<"f">>), Text(<<"s">>)>>),
    Paragraph(<<FootnoteReference(<<"g">>), Strong(<<FootnoteReference(<<"G">>)>>)>>),
    Paragraph(<<Image(HttpUrl), Link(LocalUrl, <<Image(HttpsUrl)>>)>>),
    Paragraph(<<Image(LocalUrl)>>),
    Heading(1, <<Text(<<"T">>), RefSmallA>>),
    Paragraph(<<Text(<<"[", "T", "O">>),
                LinkReference(<<"z">>, <<"z">>, <<Text(<<"c", "]">>)>>),
                Image(HttpUrl), FootnoteReference(<<"q">>)>>),
    List(FALSE, <<ListItem(<<Paragraph(<<RefZ>>),
                            List(TRUE, <<ListItem(<<Paragraph(<<Image(HttpUrl)>>)>>)>>)>>)>>),
    Blockquote(<<Paragraph(<<FootnoteReference(<<"q">>), Text(<<"t">>)>>)>>),
    Table(Null, <<TableRow(<<TableCell(<<RefA>>)>>),
                  TableRow(<<TableCell(<<Image(HttpUrl), RefZ>>)>>)>>)
    >>

\* the runs of 1..n consecutive elements of S
Windows(S, n) ==
    {SubSeq(S, i, Min(i + k - 1, Len(S))) : i \in 1..Len(S), k \in 1..n}

\* the documents of the reference claims: definitions before or after the body
RefDocs ==
    {d \o b : d \in DefSeqs, b \in Windows(BodyBlocks, MaxBlocks)}
    \cup {b \o d : d \in DefSeqs, b \in Windows(BodyBlocks, MaxBlocks)}

RefOptions ==
    {[EmptyOptions EXCEPT !.onError = e, !.useH1AsTitle = h] : e, h \in BOOLEAN}

(***************************************************************************)
(* src/src/markdown2typst.ts: the conversion, one action per stage.        *)
(***************************************************************************)
TypeOK ==
    pc \in {"parse", "fatal", "thrown", "collectDefinitions", "collectFootnotes",
            "parseFrontmatter", "findLeadingH1", "mergeMetadata", "render", "done"}

InitWith(inputs, opts) ==
    /\ input \in inputs
    /\ options \in opts
    /\ pc = "parse"
    /\ tree = <<>>
    /\ definitions = EmptyMap
    /\ footnoteDefinitions = EmptyMap
    /\ frontmatter = EmptyFrontmatter
    /\ leadingH1 = NoLeadingH1
    /\ metadata = mergeMetadata(EmptyOptions, EmptyFrontmatter, Undefined)
    /\ nodeIndex = 1
    /\ bodyParts = <<>>
    /\ externalImages = FALSE
    /\ errlog = <<>>
    /\ output = Null

ParsedInputs(docs) == {[parseFails |-> FALSE, children |-> d] : d \in docs}
Unparseable == [parseFails |-> TRUE, children |-> <<>>]

Init == InitWith(ParsedInputs(RefDocs) \cup {Unparseable}, RefOptions)

ParseError ==
    ConversionError("error", <<"Failed to parse Markdown: ">>, "markdown parsing",
                    NoDetails)

FatalError ==
    ConversionError("error", <<"Fatal error during conversion: ">>, "markdown2typst",
                    NoDetails)

\* Stage 1: parseMarkdown; when the parser throws, its catch reports and rethrows
ParseMarkdown ==
    /\ pc = "parse"
    /\ IF input.parseFails
       THEN /\ errlog' = errlog \o Report(options.onError, ParseError)
            /\ pc' = "fatal"
            /\ tree' = tree
       ELSE /\ tree' = input.children
            /\ pc' = "collectDefinitions"
            /\ errlog' = errlog
    /\ UNCHANGED <<input, options, definitions, footnoteDefinitions, frontmatter,
                   leadingH1, metadata, nodeIndex, bodyParts, externalImages, output>>

Mutant_CatchFatal ==
    /\ pc = "fatal"
    /\ errlog' = errlog \o Report(options.onError, FatalError)
    /\ pc' = "done"
    /\ output' = <<>>
    /\ UNCHANGED <<input, options, tree, definitions, footnoteDefinitions, frontmatter,
                   leadingH1, metadata, nodeIndex, bodyParts, externalImages>>

\* the catch of markdown2typst: report, then rethrow
CatchFatal ==
    /\ pc = "fatal"
    /\ errlog' = errlog \o Report(options.onError, FatalError)
    /\ pc' = "thrown"
    /\ UNCHANGED <<input, options, tree, definitions, footnoteDefinitions, frontmatter,
                   leadingH1, metadata, nodeIndex, bodyParts, externalImages, output>>

\* Stage 2
CollectDefinitions ==
    /\ pc = "collectDefinitions"
    /\ LET r == collectDefinitions(tree, options.onError)
       IN  /\ definitions' = r.map
           /\ errlog' = errlog \o r.log
    /\ pc' = "collectFootnotes"
    /\ UNCHANGED <<input, options, tree, footnoteDefinitions, frontmatter, leadingH1,
                   metadata, nodeIndex, bodyParts, externalImages, output>>

CollectFootnotes ==
    /\ pc = "collectFootnotes"
    /\ LET r == collectFootnotes(tree, options.onError)
       IN  /\ footnoteDefinitions' = r.map
           /\ errlog' = errlog \o r.log
    /\ pc' = "parseFrontmatter"
    /\ UNCHANGED <<input, options, tree, definitions, frontmatter, leadingH1, metadata,
                   nodeIndex, bodyParts, externalImages, output>>

\* Stage 3
ParseFrontmatter ==
    /\ pc = "parseFrontmatter"
    /\ LET r == parseFrontmatter(tree, options.onError)
       IN  /\ frontmatter' = r.fm
           /\ errlog' = errlog \o r.log
    /\ pc' = "findLeadingH1"
    /\ UNCHANGED <<input, options, tree, definitions, footnoteDefinitions, leadingH1,
                   metadata, nodeIndex, bodyParts, externalImages, output>>

FindLeadingH1 ==
    /\ pc = "findLeadingH1"
    /\ leadingH1' = IF options.useH1AsTitle THEN findLeadingH1(tree, definitions)
                    ELSE NoLeadingH1
    /\ pc' = "mergeMetadata"
    /\ UNCHANGED <<input, options, tree, definitions, footnoteDefinitions, frontmatter,
                   metadata, nodeIndex, bodyParts, externalImages, errlog, output>>

\* Stage 4
MergeMetadata ==
    /\ pc = "mergeMetadata"
    /\ metadata' = mergeMetadata(options, frontmatter,
                        IF leadingH1.found THEN Str(leadingH1.title) ELSE Undefined)
    /\ pc' = "render"
    /\ UNCHANGED <<input, options, tree, definitions, footnoteDefinitions, frontmatter,
                   leadingH1, nodeIndex, bodyParts, externalImages, errlog, output>>

Context ==
    [definitions |-> definitions, footnoteDefinitions |-> footnoteDefinitions,
     onError |-> options.onError, depth |-> 0]

BodyNodes == nodesForBody(tree, metadata.title, leadingH1)

BuildOutputError ==
    ConversionError("error", <<"Fatal error building output: ">>, "output building",
                    NoDetails)

\* the effects of one renderBlock of the body: its string, the flag it set, the
\* calls it made to onError; an exception leaving it reaches the catch of
\* buildOutput, which reports and rethrows
Rendering(r) ==
    /\ bodyParts' = Append(bodyParts, r.s)
    /\ externalImages' = (externalImages \/ r.ext)
    /\ errlog' = errlog \o r.log
                 \o (IF r.thrown THEN Report(options.onError, BuildOutputError) ELSE <<>>)
    /\ pc' = IF r.thrown THEN "fatal" ELSE pc

\* Stage 5, buildOutput: nodesForBody.map((node) => renderBlock(node, 0, context))
RenderBodyNode ==
    /\ pc = "render"
    /\ nodeIndex <= Len(BodyNodes)
    /\ Rendering(renderBlock(BodyNodes[nodeIndex], 0, Context))
    /\ nodeIndex' = nodeIndex + 1
    /\ UNCHANGED <<input, options, tree, definitions, footnoteDefinitions,
                   frontmatter, leadingH1, metadata, output>>

\* the warnings section is built from the flag as it is before the body is
\* rendered
Mutant_AssembleOutput ==
    /\ pc = "render"
    /\ nodeIndex > Len(BodyNodes)
    /\ output' = assemble(metadata, Join(FilterNonEmpty(bodyParts), <<NL, NL>>), FALSE)
    /\ pc' = "done"
    /\ UNCHANGED <<input, options, tree, definitions, footnoteDefinitions, frontmatter,
                   leadingH1, metadata, nodeIndex, bodyParts, externalImages, errlog>>

\* buildOutput after the body is rendered: join the body, build the parts, return
AssembleOutput ==
    /\ pc = "render"
    /\ nodeIndex > Len(BodyNodes)
    /\ output' = assemble(metadata, Join(FilterNonEmpty(bodyParts), <<NL, NL>>),
                          externalImages)
    /\ pc' = "done"
    /\ UNCHANGED <<input, options, tree, definitions, footnoteDefinitions, frontmatter,
                   leadingH1, metadata, nodeIndex, bodyParts, externalImages, errlog>>

Next ==
    \/ ParseMarkdown
    \/ CatchFatal
    \/ CollectDefinitions
    \/ CollectFootnotes
    \/ ParseFrontmatter
    \/ FindLeadingH1
    \/ MergeMetadata
    \/ RenderBodyNode
    \/ AssembleOutput

Spec == Init /\ [][Next]_vars

(***************************************************************************)
(* The documents and options of the metadata claims: an optional           *)
(* frontmatter block, an optional leading level-1 heading, a paragraph.    *)
(***************************************************************************)
\* the list of the first k one-letter names
Names(k) == [i \in 1..k |-> <<LowerCase[i]>>]

IsoDate(year, month, day) == year \o <<"-">> \o month \o <<"-">> \o day

Y2024 == <<"2", "0", "2", "4">>
Y1999 == <<"1", "9", "9", "9">>

IsoDates ==
    {IsoDate(Y2024, <<"0", "1">>, <<"1", "5">>),
     IsoDate(Y2024, <<"1">>, <<"5">>),
     IsoDate(Y1999, <<"1", "2">>, <<"0", "7">>),
     <<" ">> \o IsoDate(Y2024, <<"1", "1">>, <<"3", "0">>) \o <<" ">>}

KeywordDates ==
    {<<"a", "u", "t", "o">>, <<"n", "o", "n", "e">>, <<"A", "U", "T", "O">>,
     <<" ", "N", "o", "n", "e">>}

OtherDates ==
    {<<"n", "o", "t", "-", "a", "-", "d", "a", "t", "e">>,
     Y2024 \o <<"-", "0", "1">>,
     <<"1", "5", "/", "0", "1", "/">> \o Y2024,
     <<"x">> \o IsoDate(Y2024, <<"0", "1">>, <<"1", "5">>),
     IsoDate(Y2024, <<"0", "0", "1">>, <<"1", "5">>)}

AllDates == IsoDates \cup KeywordDates \cup OtherDates

English == <<"e", "n">>
Spanish == <<"S", "p", "a", "n", "i", "s", "h">>
Klingon == <<"t", "l", "h">>
Cuba == <<"c", "u">>
Nowhere == <<"n", "o">>

\* the options with one metadata field given, and with all of them given
OneFieldOptions ==
    {[EmptyOptions EXCEPT !.title = Str(t)] : t \in {<<"B">>, <<>>}}
    \cup {[EmptyOptions EXCEPT !.author = Str(<<"o">>)]}
    \cup {[EmptyOptions EXCEPT !.authors = Arr(Names(k))] : k \in 0..MaxList}
    \cup {[EmptyOptions EXCEPT !.description = Str(d)] : d \in {<<"D">>, <<>>}}
    \cup {[EmptyOptions EXCEPT !.keywords = Arr(Names(k))] : k \in 0..MaxList}
    \cup {[EmptyOptions EXCEPT !.date = Str(d)] : d \in AllDates \cup {<<>>}}
    \cup {[EmptyOptions EXCEPT !.abstract = Str(<<"S">>)]}
    \cup {[EmptyOptions EXCEPT !.lang = Str(l)] : l \in {English, Spanish, Klingon}}
    \cup {[EmptyOptions EXCEPT !.language = Str(Spanish)]}
    \cup {[EmptyOptions EXCEPT !.region = Str(r)] : r \in {Cuba, Nowhere}}

AllFieldOptions ==
    [EmptyOptions EXCEPT
        !.title = Str(<<"B">>), !.author = Str(<<"o">>), !.authors = Arr(Names(2)),
        !.description = Str(<<"D">>), !.keywords = Arr(Names(1)),
        !.date = Str(IsoDate(Y1999, <<"1", "2">>, <<"0", "7">>)),
        !.abstract = Str(<<"S">>), !.lang = Str(English), !.language = Str(Spanish),
        !.region = Str(Cuba)]

\* the singular author field next to an empty plural field
BothAuthorOptions ==
    [EmptyOptions EXCEPT !.author = Str(<<"o">>), !.authors = Arr(<<>>)]

MetaOptions ==
    {[o EXCEPT !.onError = e, !.useH1AsTitle = h] :
        o \in {EmptyOptions, AllFieldOptions, BothAuthorOptions} \cup OneFieldOptions,
        e, h \in BOOLEAN}

\* what js-yaml makes of the frontmatter blocks of the documents
FullYaml ==
    [kind |-> "object",
     fields |-> [title |-> Str(<<"A">>), authors |-> Arr(<<Str(<<"X">>), Num, Str(<<"Y">>)>>),
                 author |-> Str(<<"W">>), description |-> Str(<<"F">>),
                 keywords |-> Arr(<<Str(<<"K">>)>>),
                 date |-> DateObj(IsoDate(Y2024, <<"0", "1">>, <<"1", "5">>)),
                 abstract |-> Str(<<"R">>), lang |-> Str(Spanish),
                 language |-> Str(English), region |-> Str(<<"E", "S">>)]]

Yamls ==
    {FullYaml,
     [kind |-> "object", fields |-> [author |-> Str(<<"W">>), title |-> Num]],
     [kind |-> "object", fields |-> [author |-> Num, keywords |-> Arr(<<Str(<<"K">>), Num, Str(<<"L">>)>>)]],
     [kind |-> "object", fields |-> [author |-> Str(<<"W">>), authors |-> Arr(<<>>)]],
     [kind |-> "scalar", fields |-> <<>>],
     [kind |-> "throws", fields |-> <<>>]}
    \cup {[kind |-> "object", fields |-> [date |-> Str(d)]] :
            d \in {<<"n", "o", "t", "-", "a", "-", "d", "a", "t", "e">>,
                   <<"a", "u", "t", "o">>, IsoDate(Y2024, <<"1">>, <<"5">>)}}

Frontmatters ==
    {<<>>, <<Yaml(<<>>, FullYaml)>>} \cup {<<Yaml(<<"y">>, y)>> : y \in Yamls}

\* the bodies: a paragraph, alone or before a paragraph with a remote image
MetaBodies ==
    {<<Paragraph(<<Text(<<"t">>)>>)>>,
     <<Paragraph(<<Text(<<"t">>)>>), Paragraph(<<Image(HttpUrl)>>)>>}

MetaDocs ==
    {f \o h \o b :
        f \in Frontmatters,
        h \in {<<>>, <<Heading(1, <<Text(<<"H">>), Strong(<<Text(<<"1">>)>>)>>)>>},
        b \in MetaBodies}

InitMeta == InitWith(ParsedInputs(MetaDocs) \cup {Unparseable}, MetaOptions)

SpecMeta == InitMeta /\ [][Next]_vars

(***************************************************************************)
(* The documents of the block claims: code blocks, math, tables, unknown   *)
(* nodes, headings at several depths and places, and nodes whose rendering *)
(* throws (an inline code node without a value).                           *)
(***************************************************************************)
Code(lang, value) == [type |-> "code", lang |-> lang, value |-> value]
\* tex is what tex2typst makes of value: ok and the Typst math, or a throw
Math(value, tex) == [type |-> "math", value |-> value, tex |-> tex]
InlineMath(value, tex, span) ==
    [type |-> "inlineMath", value |-> value, tex |-> tex, span |-> span]
ThematicBreak == [type |-> "thematicBreak"]
\* a block of raw HTML: a kind the block renderer does not know
Html(value) == [type |-> "html", value |-> value]
\* an inline code node whose value is undefined
BadCode == InlineCode(Null)

TexOk == [ok |-> TRUE, out |-> <<"x", "^", "2">>]
TexFails == [ok |-> FALSE, out |-> <<>>]

Para(c) == Paragraph(<<Text(<<c>>)>>)
BadPara == Paragraph(<<Text(<<"p">>), Strong(<<BadCode>>)>>)

\* a footnote whose second block throws when it is rendered
FnBad == FootnoteDefinition(<<"e">>, <<Para("n"), BadPara>>)

CodeBlocks == <<
    Code(Null, <<"x">>),
    Code(<<"j", "s">>, <<"a", BACKTICK, BACKTICK, "b", NL>>),
    Code(Null, <<BACKTICK, BACKTICK, BACKTICK, NL, "x", NL, BACKTICK, BACKTICK, BACKTICK>>),
    Code(<<" ", "p", "y", " ">>, <<BACKTICK, BACKTICK, BACKTICK, BACKTICK>>),
    Code(<<" ">>, <<>>),
    \* a block fenced with tildes, whose info string may begin with a backtick
    Code(<<BACKTICK, "j", "s">>, <<"x">>) >>

BlockBlocks ==
    CodeBlocks \o <<
    Para("t"),
    Heading(1, <<Text(<<" ", "T">>), Strong(<<Text(<<"s">>)>>)>>),
    Para("u"),
    Heading(2, <<Text(<<"D">>)>>),
    Heading(1, <<Image(LocalUrl)>>),
    Math(<<" ", "m", " ">>, TexOk),
    Math(<<"m">>, TexFails),
    Paragraph(<<InlineMath(<<"m">>, TexFails, 3), InlineMath(<<"m">>, TexOk, 5),
                InlineMath(<<"m">>, TexFails, -1)>>),
    ThematicBreak,
    Html(<<"<", "b", ">">>),
    Table(Null, <<>>),
    Table(<<"center">>, <<TableRow(<<>>)>>),
    Table(<<"right", AlignNull>>, <<TableRow(<<TableCell(<<Text(<<"h">>)>>),
                                         TableCell(<<Text(<<"i">>)>>)>>),
                               TableRow(<<TableCell(<<BadCode>>),
                                         TableCell(<<Text(<<"j">>)>>)>>)>>),
    Para("v"),
    BadPara,
    Para("w"),
    Blockquote(<<Para("a"), BadPara, Code(Null, <<"c">>)>>),
    List(FALSE, <<ListItem(<<Para("a"), BadPara, Code(<<"r">>, <<"c", NL, "d">>)>>),
                  ListItem(<<Para("b")>>)>>),
    Paragraph(<<Text(<<"f">>), FootnoteReference(<<"e">>)>>),
    List(TRUE, <<ListItem(<<BadPara>>), ListItem(<<Para("b")>>)>>),
    List(FALSE, <<ListItem(<<Para("a"),
                             List(TRUE, <<ListItem(<<BadPara>>), ListItem(<<Para("c")>>)>>)>>),
                  ListItem(<<Para("b")>>)>>)
    >>

BlockPrefixes ==
    {<<>>, <<DefB>>, <<FnBad>>, <<Yaml(<<"y">>, [kind |-> "throws", fields |-> <<>>])>>,
     DupDefs(2) \o <<Paragraph(<<RefZ>>)>>}

BlockDocs ==
    {<<>>} \cup {p \o b : p \in BlockPrefixes, b \in Windows(BlockBlocks, MaxBlocks)}

InitBlocks == InitWith(ParsedInputs(BlockDocs) \cup {Unparseable}, RefOptions)

SpecBlocks == InitBlocks /\ [][Next]_vars

(***************************************************************************)
(* The documents of the claims about the shape of the markup: tables with  *)
(* their alignment metadata, math spans, inline code, nested lists.        *)
(***************************************************************************)
Cell(c) == TableCell(<<Text(<<c>>)>>)

AlignTables == <<
    Table(<<"left", "center", "right">>,
          <<TableRow(<<Cell("h"), Cell("i"), Cell("j")>>),
            TableRow(<<Cell("a"), Cell("b"), Cell("c")>>)>>),
    Table(<<AlignNull, "right">>, <<TableRow(<<Cell("h"), Cell("i")>>)>>),
    \* an alignment list shorter than the header row
    Table(<<"center">>, <<TableRow(<<Cell("h"), Cell("i")>>),
                          TableRow(<<Cell("a"), Cell("b")>>)>>),
    \* no alignment metadata
    Table(Null, <<TableRow(<<Cell("h")>>), TableRow(<<Cell("a")>>)>>),
    \* an alignment list longer than the header row
    Table(<<"right", "left">>, <<TableRow(<<Cell("h")>>)>>) >>

\* the LaTeX of the math spans, with and without blanks around it
MathValues == {<<"m">>, <<" ", "m", "+", "n", " ">>}
\* how much longer than its trimmed value a span is: $m$ is 2 longer, $$m$$ 4
SpanExtras == {2, 3, 4, 6}

\* a paragraph that is one math span, and a paragraph with two spans of the
\* same LaTeX and length, one that tex2typst converts and one that it does not
MathParagraphs ==
    {Paragraph(<<InlineMath(v, t, Len(Trim(v)) + e)>>) :
        v \in MathValues, t \in {TexOk, TexFails}, e \in SpanExtras}
    \cup {Paragraph(<<InlineMath(v, t, -1)>>) : v \in MathValues, t \in {TexOk, TexFails}}
    \cup {Paragraph(<<InlineMath(v, TexFails, Len(Trim(v)) + e), Text(<<"t">>),
                      InlineMath(v, TexOk, Len(Trim(v)) + e)>>) :
            v \in MathValues, e \in SpanExtras}

\* inline code without a backtick, and with backticks inside, first and last
InlineCodeValues ==
    {<<"c">>, <<"a", BACKTICK, "b">>, <<BACKTICK, BACKTICK>>, <<BACKTICK, "x">>,
     <<"a", " ", "b", BACKTICK>>}

CodeParagraphs ==
    {Paragraph(<<InlineCode(v)>>) : v \in InlineCodeValues}
    \cup {Paragraph(<<Text(<<"t", " ">>), InlineCode(v), Text(<<" ", "u">>)>>) :
            v \in InlineCodeValues}

\* lists with a nested list: items of one line, an item whose first paragraph
\* has a hard break ("b\\" newline "c"), one whose text has a soft break, an
\* item that starts with a block quote, a later paragraph with a hard break,
\* and a hard break in an item of the outermost list
NestedLists ==
    {List(FALSE, <<ListItem(<<Para("a"),
                             List(TRUE, <<ListItem(<<Para("b"),
                                                     Code(Null, <<"c", NL, "d">>)>>)>>)>>)>>),
     List(FALSE, <<ListItem(<<Para("a"),
                             List(FALSE, <<ListItem(<<Paragraph(<<Text(<<"b">>), Break,
                                                                  Text(<<"c">>)>>)>>)>>)>>)>>),
     List(TRUE, <<ListItem(<<Para("a"),
                            List(FALSE, <<ListItem(<<Paragraph(<<Text(<<"b", NL, "c">>)>>)>>)>>)>>)>>),
     List(FALSE, <<ListItem(<<Para("a"),
                             List(FALSE, <<ListItem(<<Blockquote(<<Para("q")>>)>>)>>)>>)>>),
     List(FALSE, <<ListItem(<<Para("a"),
                             Paragraph(<<Text(<<"b">>), Break, Text(<<"c">>)>>)>>)>>),
     List(FALSE, <<ListItem(<<Paragraph(<<Text(<<"b">>), Break, Text(<<"c">>)>>)>>),
                   ListItem(<<Para("d")>>)>>)}

ShapeDocs ==
    Windows(AlignTables, MaxBlocks)
    \cup {<<p>> : p \in MathParagraphs}
    \cup {<<p>> : p \in CodeParagraphs}
    \cup {<<l>> : l \in NestedLists}

InitShapes == InitWith(ParsedInputs(ShapeDocs) \cup {Unparseable}, RefOptions)

SpecShapes == InitShapes /\ [][Next]_vars

(***************************************************************************)
(* The documents of the termination claim: footnotes whose body refers to  *)
(* the footnote itself, or to a footnote that refers back to it.           *)
(***************************************************************************)
Footnote(identifier, text, ref) ==
    FootnoteDefinition(identifier,
        <<Paragraph(<<Text(<<text>>), FootnoteReference(ref)>>)>>)

RefPara(ref) == Paragraph(<<Text(<<"t">>), FootnoteReference(ref)>>)

CycleDocs ==
    {\* no cycle: a footnote, and a footnote that refers to another one
     <<FnF, RefPara(<<"f">>)>>,
     <<FnF, Footnote(<<"o">>, "m", <<"f">>), RefPara(<<"o">>)>>,
     <<FnF, RefPara(<<"f">>), RefPara(<<"F">>)>>,
     \* a footnote that refers to itself, referenced or not
     <<Footnote(<<"s">>, "n", <<"s">>), RefPara(<<"s">>)>>,
     <<Footnote(<<"s">>, "n", <<"s">>), Para("t")>>,
     <<List(FALSE, <<ListItem(<<RefPara(<<"S">>)>>)>>), Footnote(<<"s">>, "n", <<"s">>)>>,
     \* two footnotes that refer to each other
     <<Footnote(<<"p">>, "n", <<"q">>), Footnote(<<"q">>, "m", <<"p">>),
       RefPara(<<"p">>)>>}

InitCycles == InitWith(ParsedInputs(CycleDocs) \cup {Unparseable}, RefOptions)

SpecCycles == InitCycles /\ [][Next]_vars

(***************************************************************************)
(* Two calls of markdown2typst, one after the other.  The function is      *)
(* synchronous: a call runs to its end before the next one begins.  The    *)
(* input holds the calls to make (calls) and which one is running (call).  *)
(***************************************************************************)
CallDocs ==
    {<<Paragraph(<<Image(HttpUrl)>>)>>,
     <<Para("t")>>,
     <<DefB, Paragraph(<<RefB>>)>>,
     <<Paragraph(<<RefB>>)>>,
     <<FnF, RefPara(<<"f">>)>>,
     <<RefPara(<<"f">>)>>,
     <<Yaml(<<"y">>, [kind |-> "object", fields |-> [title |-> Str(<<"A">>)]]),
       Para("t")>>}

Calls ==
    {[parseFails |-> FALSE, children |-> d, options |-> o] :
        d \in CallDocs, o \in {[EmptyOptions EXCEPT !.onError = e] : e \in BOOLEAN}}
    \cup {[parseFails |-> TRUE, children |-> <<>>, options |-> EmptyOptions]}

\* the input of call i of these calls
CallInput(calls, i) ==
    [parseFails |-> calls[i].parseFails, children |-> calls[i].children,
     calls |-> calls, call |-> i]

InitCalls ==
    \E first \in Calls, second \in Calls :
        InitWith({CallInput(<<first, second>>, 1)}, {first.options})

\* the context of the first call is kept for the next one
Mutant_CallAgain ==
    /\ pc \in {"done", "thrown"}
    /\ input.call < Len(input.calls)
    /\ input' = CallInput(input.calls, input.call + 1)
    /\ options' = input.calls[input.call + 1].options
    /\ pc' = "parse"
    /\ tree' = <<>>
    /\ definitions' = EmptyMap
    /\ footnoteDefinitions' = EmptyMap
    /\ frontmatter' = EmptyFrontmatter
    /\ leadingH1' = NoLeadingH1
    /\ metadata' = mergeMetadata(EmptyOptions, EmptyFrontmatter, Undefined)
    /\ nodeIndex' = 1
    /\ bodyParts' = <<>>
    /\ errlog' = <<>>
    /\ output' = Null
    /\ UNCHANGED externalImages

\* the caller calls markdown2typst again, after the call has returned or thrown:
\* every local of the function is new, the context is created with
\* warnings.externalImages false, and the callback is that of the new options
CallAgain ==
    /\ pc \in {"done", "thrown"}
    /\ input.call < Len(input.calls)
    /\ input' = CallInput(input.calls, input.call + 1)
    /\ options' = input.calls[input.call + 1].options
    /\ pc' = "parse"
    /\ tree' = <<>>
    /\ definitions' = EmptyMap
    /\ footnoteDefinitions' = EmptyMap
    /\ frontmatter' = EmptyFrontmatter
    /\ leadingH1' = NoLeadingH1
    /\ metadata' = mergeMetadata(EmptyOptions, EmptyFrontmatter, Undefined)
    /\ nodeIndex' = 1
    /\ bodyParts' = <<>>
    /\ externalImages' = FALSE
    /\ errlog' = <<>>
    /\ output' = Null

NextCalls == Next \/ CallAgain

SpecCalls == InitCalls /\ [][NextCalls]_vars

(***************************************************************************)
(* What the claims speak of: the nodes of a tree, and the nodes a          *)
(* conversion renders.                                                     *)
(***************************************************************************)
InlineParents ==
    {"strong", "emphasis", "delete", "mark", "subscript", "superscript", "link",
     "linkReference"}

\* every inline node below these inline nodes, each once
RECURSIVE InlinesBelow(_)
InlinesBelow(nodes) ==
    Flatten([i \in 1..Len(nodes) |->
        <<nodes[i]>> \o (IF nodes[i].type \in InlineParents
                         THEN InlinesBelow(nodes[i].children) ELSE <<>>)])

\* every inline node anywhere in these block nodes, each once
RECURSIVE InlinesOfTree(_)
InlinesOfTree(blocks) ==
    Flatten([i \in 1..Len(blocks) |->
        IF blocks[i].type \in {"paragraph", "heading", "tableCell"}
        THEN InlinesBelow(blocks[i].children)
        ELSE IF blocks[i].type \in {"list", "listItem", "blockquote", "table",
                                    "tableRow", "footnoteDefinition"}
        THEN InlinesOfTree(blocks[i].children)
        ELSE <<>>])

IsTocParagraph(node, defs) ==
    ToLowerCase(Trim(plainTextFromPhrasing(node.children, defs))) = TocText

\* the inline nodes a rendering of these nodes passes through, once for every
\* time it renders them (a footnote's body once per rendered reference to it)
RECURSIVE RenderedInlines(_, _), RenderedInBlocks(_, _)
RenderedInlines(nodes, ctx) ==
    Flatten([i \in 1..Len(nodes) |->
        <<nodes[i]>> \o
        (IF nodes[i].type \in InlineParents THEN RenderedInlines(nodes[i].children, ctx)
         ELSE IF /\ nodes[i].type = "footnoteReference"
                 /\ MapHas(ctx.footnoteDefinitions, ToLowerCase(nodes[i].identifier))
         THEN RenderedInBlocks(
                ctx.footnoteDefinitions[ToLowerCase(nodes[i].identifier)].children, ctx)
         ELSE <<>>)])

RenderedInBlocks(blocks, ctx) ==
    Flatten([i \in 1..Len(blocks) |->
        LET b == blocks[i]
        IN  IF b.type = "paragraph"
            THEN IF IsTocParagraph(b, ctx.definitions) THEN <<>>
                 ELSE RenderedInlines(b.children, ctx)
            ELSE IF b.type = "heading" THEN RenderedInlines(b.children, ctx)
            ELSE IF b.type \in {"list", "listItem", "blockquote"}
            THEN RenderedInBlocks(b.children, ctx)
            ELSE IF b.type = "table"
            THEN IF Len(b.children) = 0 \/ Len(b.children[1].children) = 0 THEN <<>>
                 ELSE RenderedInlines(
                        Flatten([r \in 1..Len(b.children) |->
                            Flatten([c \in 1..Len(b.children[r].children) |->
                                b.children[r].children[c].children])]), ctx)
            ELSE <<>>])

\* the inline nodes the conversion renders, in the state where it has returned
Rendered == RenderedInBlocks(BodyNodes, Context)

\* text without the indentation that follows its newlines
Unindent(text) ==
    LET Indent(i) ==
            /\ text[i] = " "
            /\ \E j \in 1..(i - 1) :
                    text[j] = NL /\ \A k \in (j + 1)..i : text[k] = " "
        marked == [i \in 1..Len(text) |-> IF Indent(i) THEN <<>> ELSE <<text[i]>>]
        IsKept(m) == m # <<>>
        kept == SelectSeq(marked, IsKept)
    IN  [i \in 1..Len(kept) |-> kept[i][1]]

\* the output holds this markup, whatever the indentation of its lines
OutputHolds(markup) == Includes(Unindent(output), Unindent(markup))

CountLog(P(_)) == Cardinality({i \in 1..Len(errlog) : P(errlog[i])})

IsUnresolvedLinkWarning(e) ==
    /\ e.severity = "warning" /\ e.context = "inline rendering"
    /\ Head(e.message) = "Link reference ["

IsUnresolvedFootnoteWarning(e) ==
    /\ e.severity = "warning" /\ e.context = "inline rendering"
    /\ Head(e.message) = "Footnote reference [^"

IsDuplicateDefinitionWarning(e) ==
    e.severity = "warning" /\ e.context = "definition collection"

TopLevel(type) == {i \in 1..Len(tree) : tree[i].type = type}

\* the top-level nodes of this type whose identifier is id, ignoring letter case
Matching(type, id) ==
    {i \in TopLevel(type) : ToLowerCase(tree[i].identifier) = ToLowerCase(id)}

Last(S) == CHOOSE i \in S : \A j \in S : i >= j

\* the markup of a link to url around the children of node
LinkTo(url, node) ==
    LET label == renderInlines(node.children, Context).s
    IN  LinkMarkup(escapeTypstString(url),
                   IF Trim(label) = <<>> THEN escapeTypstText(url) ELSE label)

\* the markup of a footnote with the content of the definition def
FootnoteOf(def) ==
    <<"#footnote[">>
    \o Trim(Join(FilterNonEmpty(renderBlockList(def.children, 0, Context).vals), <<" ">>))
    \o <<"]">>

RenderedOfType(type) ==
    {i \in 1..Len(Rendered) : Rendered[i].type = type}

(***************************************************************************)
(* The claims.                                                             *)
(***************************************************************************)
Returned == pc = "done"
NeverThrows == ~input.parseFails => pc \notin {"fatal", "thrown"}

\* C3: lookup of definitions is case-insensitive.  Every rendered link reference
\* whose identifier equals, ignoring letter case, the identifier of a top-level
\* definition is rendered as a link to the URL of such a definition (the one the
\* map holds), every rendered footnote reference whose identifier so matches a
\* footnote definition is rendered as a footnote with that definition's content,
\* and no unresolved-reference warning is reported for an identifier that matches
\* a definition.
C3_CaseInsensitiveLookup ==
    Returned =>
        /\ \A i \in RenderedOfType("linkReference") :
            LET n == Rendered[i]
                key == ToLowerCase(n.identifier)
            IN  Matching("definition", n.identifier) # {} =>
                    /\ MapHas(definitions, key)
                    /\ \E j \in Matching("definition", n.identifier) :
                            definitions[key] = tree[j]
                    /\ OutputHolds(LinkTo(definitions[key].url, n))
        /\ \A i \in RenderedOfType("footnoteReference") :
            LET n == Rendered[i]
                key == ToLowerCase(n.identifier)
            IN  Matching("footnoteDefinition", n.identifier) # {} =>
                    /\ MapHas(footnoteDefinitions, key)
                    /\ \E j \in Matching("footnoteDefinition", n.identifier) :
                            footnoteDefinitions[key] = tree[j]
                    /\ OutputHolds(FootnoteOf(footnoteDefinitions[key]))
        /\ \A i \in 1..Len(errlog) :
            /\ IsUnresolvedLinkWarning(errlog[i]) =>
                    Matching("definition", errlog[i].details.identifier) = {}
            /\ IsUnresolvedFootnoteWarning(errlog[i]) =>
                    Matching("footnoteDefinition", errlog[i].details.identifier) = {}

\* a returned conversion that rendered a link reference and a footnote reference,
\* each written in another letter case than the definition it resolved to
C3_Witness ==
    /\ Returned
    /\ \E i \in RenderedOfType("linkReference") :
        \E j \in Matching("definition", Rendered[i].identifier) :
            /\ tree[j].identifier # Rendered[i].identifier
            /\ OutputHolds(LinkTo(tree[j].url, Rendered[i]))
    /\ \E i \in RenderedOfType("footnoteReference") :
        \E j \in Matching("footnoteDefinition", Rendered[i].identifier) :
            /\ tree[j].identifier # Rendered[i].identifier
            /\ OutputHolds(FootnoteOf(tree[j]))

DuplicateWarningsFor(key) ==
    {i \in 1..Len(errlog) :
        /\ IsDuplicateDefinitionWarning(errlog[i])
        /\ ToLowerCase(errlog[i].details.identifier) = key}

\* C4: when several top-level link definitions have the same lower-cased
\* identifier, the definition map holds the last one in source order, rendered
\* references to it are links to its URL, and with an error callback exactly one
\* warning is reported for every suppressed definition (k definitions, k-1 warnings).
C4_LastDefinitionWins ==
    Returned =>
        \A d \in TopLevel("definition") :
            LET key == ToLowerCase(tree[d].identifier)
                same == Matching("definition", tree[d].identifier)
            IN  /\ MapHas(definitions, key)
                /\ definitions[key] = tree[Last(same)]
                /\ \A i \in RenderedOfType("linkReference") :
                        ToLowerCase(Rendered[i].identifier) = key =>
                            OutputHolds(LinkTo(tree[Last(same)].url, Rendered[i]))
                /\ options.onError =>
                        Cardinality(DuplicateWarningsFor(key)) = Cardinality(same) - 1

\* three definitions of one identifier, two warnings, and a rendered reference
C4_Witness ==
    /\ Returned /\ options.onError
    /\ Cardinality(Matching("definition", <<"a">>)) = 3
    /\ Cardinality(DuplicateWarningsFor(<<"a">>)) = 2
    /\ \E i \in RenderedOfType("linkReference") :
            ToLowerCase(Rendered[i].identifier) = <<"a">>

\* the text an unresolved link reference falls back to
FallbackText(node) ==
    LET label == renderInlines(node.children, Context).s
    IN  IF label # <<>> THEN label
        ELSE escapeTypstText(IF node.label # <<>> THEN node.label ELSE node.identifier)

IsUnresolvedLink(node) ==
    node.type = "linkReference" /\ Matching("definition", node.identifier) = {}

IsUnresolvedFootnote(node) ==
    node.type = "footnoteReference"
    /\ Matching("footnoteDefinition", node.identifier) = {}

Positions(nodes, P(_)) == {i \in 1..Len(nodes) : P(nodes[i])}

\* C5: an unresolved link reference never makes the conversion throw, and, for
\* every link reference the conversion renders whose identifier has no matching
\* definition, the output contains the reference's fallback text (its rendered
\* label, or its escaped label or identifier when the rendered label is empty;
\* trimmed, when it is not blank) and, with an error callback, exactly one warning
\* is reported for every time the reference is rendered.
C5_UnresolvedLinkRendered ==
    /\ NeverThrows
    /\ Returned =>
        /\ \A i \in Positions(Rendered, IsUnresolvedLink) :
                Trim(FallbackText(Rendered[i])) # <<>> =>
                    OutputHolds(Trim(FallbackText(Rendered[i])))
        /\ options.onError =>
                CountLog(IsUnresolvedLinkWarning)
                    = Cardinality(Positions(Rendered, IsUnresolvedLink))
        /\ ~options.onError => errlog = <<>>

\* rendered unresolved link references, one of them with an empty label, and a
\* warning for each
C5_Witness ==
    /\ Returned /\ options.onError
    /\ Cardinality(Positions(Rendered, IsUnresolvedLink)) >= 2
    /\ CountLog(IsUnresolvedLinkWarning) >= 2
    /\ \E i \in Positions(Rendered, IsUnresolvedLink) :
            Rendered[i].children = <<>> /\ OutputHolds(FallbackText(Rendered[i]))

\* C5 as stated: every unresolved link reference of the tree, wherever it occurs,
\* has its fallback text in the output and exactly one warning.
C5_Original ==
    (Returned /\ options.onError) =>
        /\ \A i \in Positions(InlinesOfTree(tree), IsUnresolvedLink) :
                OutputHolds(Trim(FallbackText(InlinesOfTree(tree)[i])))
        /\ CountLog(IsUnresolvedLinkWarning)
                = Cardinality(Positions(InlinesOfTree(tree), IsUnresolvedLink))

\* these nodes without the footnote references that have no definition
RECURSIVE StripInlines(_), StripBlocks(_)
StripInlines(nodes) ==
    Flatten([i \in 1..Len(nodes) |->
        IF IsUnresolvedFootnote(nodes[i]) THEN <<>>
        ELSE IF nodes[i].type \in InlineParents
        THEN << [nodes[i] EXCEPT !.children = StripInlines(nodes[i].children)] >>
        ELSE << nodes[i] >>])

StripBlocks(blocks) ==
    [i \in 1..Len(blocks) |->
        IF blocks[i].type \in {"paragraph", "heading", "tableCell"}
        THEN [blocks[i] EXCEPT !.children = StripInlines(blocks[i].children)]
        ELSE IF blocks[i].type \in {"list", "listItem", "blockquote", "table",
                                    "tableRow", "footnoteDefinition"}
        THEN [blocks[i] EXCEPT !.children = StripBlocks(blocks[i].children)]
        ELSE blocks[i]]

StrippedContext ==
    [Context EXCEPT !.footnoteDefinitions =
        [k \in DOMAIN footnoteDefinitions |-> StripBlocks(<<footnoteDefinitions[k]>>)[1]]]

\* C6: a footnote reference without a footnote definition never makes the
\* conversion throw; for every such reference the conversion renders, a warning
\* naming it is reported when there is an error callback, and the reference
\* contributes no text: every block renders to what it renders to with the
\* unresolved footnote references removed, so the surrounding content is kept.
C6_UnresolvedFootnoteRendered ==
    /\ NeverThrows
    /\ Returned =>
        /\ options.onError =>
            \A i \in Positions(Rendered, IsUnresolvedFootnote) :
                \E j \in 1..Len(errlog) :
                    /\ IsUnresolvedFootnoteWarning(errlog[j])
                    /\ errlog[j].details.identifier = Rendered[i].identifier
        /\ bodyParts =
            [k \in 1..Len(BodyNodes) |->
                renderBlock(StripBlocks(BodyNodes)[k], 0, StrippedContext).s]

\* an unresolved footnote reference rendered next to text that is in the output
C6_Witness ==
    /\ Returned /\ options.onError
    /\ \E k \in 1..Len(BodyNodes) :
        /\ BodyNodes[k].type = "blockquote"
        /\ Positions(RenderedInBlocks(<<BodyNodes[k]>>, Context), IsUnresolvedFootnote) # {}
        /\ bodyParts[k] # <<>>
        /\ OutputHolds(bodyParts[k])
    /\ CountLog(IsUnresolvedFootnoteWarning) >= 1

\* C6 as stated: every footnote reference of the tree without a definition has a
\* warning reported for it.
C6_Original ==
    (Returned /\ options.onError) =>
        \A i \in Positions(InlinesOfTree(tree), IsUnresolvedFootnote) :
            \E j \in 1..Len(errlog) :
                /\ IsUnresolvedFootnoteWarning(errlog[j])
                /\ errlog[j].details.identifier = InlinesOfTree(tree)[i].identifier

IsRemoteImage(node) ==
    /\ node.type = "image"
    /\ \/ StartsWith(ToLowerCase(node.url), <<"h", "t", "t", "p", ":", "/", "/">>)
       \/ StartsWith(ToLowerCase(node.url), <<"h", "t", "t", "p", "s", ":", "/", "/">>)

\* C7: if the conversion renders an image with an http/https URL, the output
\* contains the definition of the external-image placeholder exactly once,
\* however many remote images are rendered; if it renders none, the output does
\* not contain it.
C7_PreambleOnceWhenRendered ==
    Returned =>
        Occurrences(output, <<ExternalImageLet>>)
            = IF Positions(Rendered, IsRemoteImage) # {} THEN 1 ELSE 0

\* two remote images rendered, one preamble
C7_Witness ==
    /\ Returned
    /\ Cardinality(Positions(Rendered, IsRemoteImage)) >= 2
    /\ Occurrences(output, <<ExternalImageLet>>) = 1

\* C7 as stated: a remote image anywhere in the tree puts the preamble into the
\* output exactly once.
C7_Original ==
    (Returned /\ Positions(InlinesOfTree(tree), IsRemoteImage) # {}) =>
        Occurrences(output, <<ExternalImageLet>>) = 1

Merged == pc \in {"render", "done"}

IsBodyNode(node) == node.type \notin {"yaml", "definition"}

\* the text of the leading level-1 heading, <<>> when there is none
LeadingHeadingText ==
    LET body == SelectSeq(tree, IsBodyNode)
    IN  IF body # <<>> /\ body[1].type = "heading" /\ body[1].depth = 1
        THEN Trim(plainTextFromPhrasing(body[1].children, definitions))
        ELSE <<>>

\* the output has this line among the arguments of #set document(...)
HasDocumentArg(arg) ==
    \E i \in 1..Len(SplitLines(output)) :
        \/ SplitLines(output)[i] = <<" ", " ">> \o arg
        \/ SplitLines(output)[i] = <<" ", " ">> \o arg \o <<",">>

\* C1: the merged title is the first present value of the title option, the
\* frontmatter title, the text of the leading level-1 heading (only with
\* useH1AsTitle), and otherwise the empty string; a non-empty merged title is the
\* title of the document declaration.
C1_TitlePrecedence ==
    /\ Merged =>
        metadata.title =
            IF IsDef(options.title) THEN options.title.v
            ELSE IF IsDef(frontmatter.title) THEN frontmatter.title.v
            ELSE IF options.useH1AsTitle /\ LeadingHeadingText # <<>>
            THEN LeadingHeadingText
            ELSE <<>>
    /\ (Returned /\ metadata.title # <<>>) =>
        HasDocumentArg(<<"title: [">> \o metadata.title \o <<"]">>)

\* frontmatter title A, option title B and a leading heading: the title is B
C1_Witness ==
    /\ Returned
    /\ options.title = Str(<<"B">>) /\ frontmatter.title = Str(<<"A">>)
    /\ options.useH1AsTitle /\ LeadingHeadingText # <<>>
    /\ metadata.title = <<"B">>
    /\ HasDocumentArg(<<"title: [", "B", "]">>)

\* C2: whenever the caller gives a metadata field in the options, the merged
\* value of the field is the option's value (for the language and the region,
\* the code the option's value stands for), whatever the frontmatter holds.
C2_OptionsOverrideFrontmatter ==
    Merged =>
        /\ IsDef(options.title) => metadata.title = options.title.v
        /\ IsDef(options.authors) => metadata.authors = options.authors.v
        /\ (~IsDef(options.authors) /\ IsDef(options.author)) =>
                metadata.authors = <<options.author.v>>
        /\ IsDef(options.description) => metadata.description = options.description
        /\ IsDef(options.keywords) => metadata.keywords = options.keywords
        /\ IsDef(options.date) => metadata.date = options.date
        /\ IsDef(options.abstract) => metadata.abstract = options.abstract
        /\ IsDef(options.lang) => metadata.lang = coerceLanguage(options.lang)
        /\ (~IsDef(options.lang) /\ IsDef(options.language)) =>
                metadata.lang = coerceLanguage(options.language)
        /\ IsDef(options.region) => metadata.region = coerceRegion(options.region)

\* the Typst array of these strings: quoted, separated by a comma and a space,
\* with a comma after the only element of a one-element list
ExpectedArray(xs) ==
    <<"(">>
    \o Join([i \in 1..Len(xs) |-> <<QUOTE>> \o escapeTypstString(xs[i]) \o <<QUOTE>>],
            <<",", " ">>)
    \o (IF Len(xs) = 1 THEN <<",">> ELSE <<>>)
    \o <<")">>

\* C8: in the document declaration an author or keyword list with exactly one
\* element is rendered with a trailing comma inside the parentheses, and a list
\* of two or more elements comma-separated with no trailing comma.
C8_TrailingComma ==
    Returned =>
        /\ Len(metadata.authors) >= 1 =>
                HasDocumentArg(<<"author: ">> \o ExpectedArray(metadata.authors))
        /\ (IsDef(metadata.keywords) /\ Len(metadata.keywords.v) >= 1) =>
                HasDocumentArg(<<"keywords: ">> \o ExpectedArray(metadata.keywords.v))

\* one author and two keywords
C8_Witness ==
    /\ Returned
    /\ Len(metadata.authors) = 1
    /\ IsDef(metadata.keywords) /\ Len(metadata.keywords.v) = 2
    /\ HasDocumentArg(<<"author: ", "(", QUOTE, "W", QUOTE, ",", ")">>)
    /\ HasDocumentArg(<<"keywords: ", "(", QUOTE, "a", QUOTE, ",", " ", QUOTE, "b", QUOTE, ")">>)

\* the decimal numeral of the number these digits denote
Numeral(digits) ==
    LET nonzero == {i \in 1..Len(digits) : digits[i] # "0"}
    IN  IF nonzero = {} THEN <<"0">>
        ELSE SubSeq(digits, CHOOSE i \in nonzero : \A j \in nonzero : i <= j, Len(digits))

DateKeyword(date) ==
    IF ToLowerCase(Trim(date)) = <<"a", "u", "t", "o">> THEN <<"auto">>
    ELSE IF ToLowerCase(Trim(date)) = <<"n", "o", "n", "e">> THEN <<"none">>
    ELSE <<>>

\* C9: a date of the form YYYY-MM-DD is rendered as datetime(day, month, year)
\* with the numeric values of the source, and the dates auto and none as the
\* literal keywords.
C9_DateRendering ==
    (Returned /\ Truthy(metadata.date)) =>
        LET date == metadata.date.v
            groups == IsoMatch(Trim(date))
        IN  /\ groups # <<>> =>
                HasDocumentArg(<<"date: ", "datetime(day: ">> \o Numeral(groups[3])
                               \o <<", month: ">> \o Numeral(groups[2])
                               \o <<", year: ">> \o Numeral(groups[1]) \o <<")">>)
            /\ DateKeyword(date) # <<>> =>
                HasDocumentArg(<<"date: ">> \o DateKeyword(date))

\* 2024-01-15 rendered with day 15, month 1, year 2024
C9_Witness ==
    /\ Returned
    /\ metadata.date = Str(IsoDate(Y2024, <<"0", "1">>, <<"1", "5">>))
    /\ HasDocumentArg(<<"date: ", "datetime(day: ", "1", "5", ", month: ", "1",
                        ", year: ", "2", "0", "2", "4", ")">>)

\* C10: a date that is neither an ISO date nor auto/none is rendered as auto and
\* a warning is reported to the error callback.
C10_InvalidDateWarns ==
    (/\ Returned /\ options.onError /\ Truthy(metadata.date)
     /\ IsoMatch(Trim(metadata.date.v)) = <<>>
     /\ DateKeyword(metadata.date.v) = <<>>) =>
        /\ HasDocumentArg(<<"date: ", "auto">>)
        /\ \E i \in 1..Len(errlog) : errlog[i].severity = "warning"

\* the number of backticks a line begins with
FenceRun(line) ==
    CHOOSE n \in 0..Len(line) :
        /\ \A i \in 1..n : line[i] = BACKTICK
        /\ n = Len(line) \/ line[n + 1] # BACKTICK

\* the length of the longest run of backticks in a text
LongestRun(text) ==
    CHOOSE n \in 0..Len(text) :
        /\ Includes(text, Repeat(BACKTICK, n))
        /\ ~Includes(text, Repeat(BACKTICK, n + 1))

\* C11: for every code block (of the top level), the opening and the closing
\* fence have the same length, which is at least 3 and strictly greater than the
\* longest run of backticks in the code value: the first line of the block
\* begins with as many backticks as the last line, which holds nothing else.
C11_FenceLengths ==
    Returned =>
        \A k \in 1..Len(BodyNodes) :
            BodyNodes[k].type = "code" =>
                LET lines == SplitLines(bodyParts[k])
                    close == lines[Len(lines)]
                IN  /\ Len(lines) >= 2
                    /\ close = Repeat(BACKTICK, Len(close))
                    /\ FenceRun(lines[1]) = Len(close)
                    /\ Len(close) >= 3
                    /\ Len(close) > LongestRun(BodyNodes[k].value)

\* C12: whenever the parser returns a tree, the conversion never throws, every
\* stage before the rendering hands over to the next one, and what the conversion
\* returns is a string, with or without an error callback.
C12_AlwaysReturnsString ==
    /\ ~input.parseFails => pc \notin {"fatal", "thrown"}
    /\ (~input.parseFails /\ pc \notin {"render", "done"}) => ENABLED Next
    /\ pc = "done" => (~input.parseFails /\ output # Null)

\* a returned conversion of a tree with a block whose rendering threw, next to a
\* block that is in the output
C12_Witness ==
    /\ Returned /\ output # <<>>
    /\ \E k \in 1..Len(BodyNodes) :
            BodyNodes[k].type = "paragraph" /\ bodyParts[k] = Null

\* the index of the first node that is neither metadata nor a definition, 0 when
\* there is none
FirstBodyIndex ==
    LET body == {i \in 1..Len(tree) : IsBodyNode(tree[i])}
    IN  IF body = {} THEN 0 ELSE CHOOSE i \in body : \A j \in body : i <= j

HeadingLine(node) ==
    Repeat("=", node.depth) \o <<" ">> \o renderInlines(node.children, Context).s

\* C15: the leading heading is extracted only when useH1AsTitle is enabled.
\* Without it nothing is extracted, the merged title does not come from the
\* heading, and a leading level-1 heading is a heading line of the body.  With it
\* a heading is extracted exactly when the first node after the metadata and
\* definition nodes is a heading of depth 1 with non-empty flattened text, and
\* then with that text and that place.
C15_ExtractionOnlyWhenEnabled ==
    /\ pc \in {"mergeMetadata", "render", "done"} =>
        IF options.useH1AsTitle
        THEN /\ leadingH1.found <=> LeadingHeadingText # <<>>
             /\ leadingH1.found =>
                    /\ leadingH1.index = FirstBodyIndex
                    /\ leadingH1.title = LeadingHeadingText
        ELSE ~leadingH1.found
    /\ (Merged /\ ~options.useH1AsTitle) =>
        metadata.title = Coalesce(Coalesce(options.title, frontmatter.title), Str(<<>>)).v
    /\ (Returned /\ ~options.useH1AsTitle /\ LeadingHeadingText # <<>>) =>
        /\ bodyParts[FirstBodyIndex] = HeadingLine(tree[FirstBodyIndex])
        /\ Includes(output, HeadingLine(tree[FirstBodyIndex]))

\* the heading after a definition is extracted as the title and left out of the
\* body
C15_Witness ==
    /\ Returned /\ options.useH1AsTitle
    /\ leadingH1.found /\ leadingH1.index = 2
    /\ metadata.title = <<"T", "s">>
    /\ ~Includes(output, HeadingLine(tree[2]))

\* C18: a failure of the parser is reported to the error callback, when there is
\* one, with severity error before the exception reaches the caller, and is then
\* thrown again; the conversion then never returns a string, with or without a
\* callback, and no other conversion throws.
C18_FatalReportedThenRethrown ==
    /\ pc \in {"fatal", "thrown"} =>
        /\ input.parseFails
        /\ IF options.onError
           THEN /\ \E i \in 1..Len(errlog) : errlog[i].context = "markdown parsing"
                /\ \A i \in 1..Len(errlog) : errlog[i].severity = "error"
           ELSE errlog = <<>>
    /\ (pc = "thrown" /\ options.onError) =>
        \E i \in 1..Len(errlog) : errlog[i].context = "markdown2typst"
    /\ input.parseFails =>
        /\ pc # "done" /\ output = Null
        /\ pc # "thrown" => ENABLED Next

\* the failure has reached the caller after two reports to the callback
C18_Witness ==
    /\ pc = "thrown" /\ options.onError
    /\ Len(errlog) = 2
    /\ errlog[1].context = "markdown parsing" /\ errlog[2].context = "markdown2typst"

\* a paragraph or heading whose inline content holds an inline code node
\* without a value: rendering it raises an exception
IsFailingBlock(b) ==
    /\ b.type \in {"paragraph", "heading"}
    /\ \E i \in 1..Len(InlinesBelow(b.children)) : InlinesBelow(b.children)[i] = BadCode

\* the failing blocks among these blocks, at every nesting level
RECURSIVE FailingBlocks(_)
FailingBlocks(blocks) ==
    Flatten([i \in 1..Len(blocks) |->
        IF IsFailingBlock(blocks[i]) THEN <<blocks[i]>>
        ELSE IF blocks[i].type \in {"list", "listItem", "blockquote"}
        THEN FailingBlocks(blocks[i].children)
        ELSE <<>>])

\* these blocks without the failing blocks, at every nesting level
RECURSIVE DropFailing(_)
DropFailing(blocks) ==
    Flatten([i \in 1..Len(blocks) |->
        IF IsFailingBlock(blocks[i]) THEN <<>>
        ELSE IF blocks[i].type \in {"list", "listItem", "blockquote", "footnoteDefinition"}
        THEN << [blocks[i] EXCEPT !.children = DropFailing(blocks[i].children)] >>
        ELSE << blocks[i] >>])

DroppedContext ==
    [Context EXCEPT !.footnoteDefinitions =
        [k \in DOMAIN footnoteDefinitions |-> DropFailing(<<footnoteDefinitions[k]>>)[1]]]

\* the body these top-level blocks render to
BodyOf(blocks, ctx) ==
    Join(FilterNonEmpty([k \in 1..Len(blocks) |-> renderBlock(blocks[k], 0, ctx).s]),
         <<NL, NL>>)

IsBlockErrorFor(e, type) ==
    /\ e.severity = "error" /\ e.context = "block rendering"
    /\ e.details.nodeType = type

C13_BodyAlone ==
    (/\ Returned
     /\ metadata.title = <<>> /\ metadata.authors = <<>>
     /\ ~Truthy(metadata.description) /\ ~Truthy(metadata.date)
     /\ (~IsDef(metadata.keywords) \/ metadata.keywords.v = <<>>)
     /\ ~Truthy(metadata.abstract)
     /\ ~Truthy(metadata.lang) /\ ~Truthy(metadata.region)
     /\ Positions(Rendered, IsRemoteImage) = {}) =>
        output = BodyOf(tree, Context)

\* a body of two blocks returned alone
C13_Witness ==
    /\ Returned
    /\ metadata.title = <<>> /\ metadata.authors = <<>> /\ ~IsDef(metadata.keywords)
    /\ ~IsDef(metadata.date) /\ ~IsDef(metadata.lang)
    /\ output = <<"=", " ", "H", "*", "1", "*", NL, NL, "t">>

\* the places of the output where a line begins with this token
LinesWith(token) ==
    {i \in 1..Len(output) : output[i] = token /\ (i = 1 \/ output[i - 1] = NL)}

\* the tokens the first lines of the sections begin with, in the order of the
\* sections: metadata declaration, abstract declaration, centered title block,
\* language/region directive, helper preamble
SectionTokens ==
    <<"#set document(", "#let abstract = [", "#align(center)[", "#set text(",
      ExternalImageLet>>

\* C14: the sections that are present appear in the fixed order metadata
\* declaration, abstract declaration, centered title block, language/region
\* directive, helper preamble, rendered body, each at most once; the metadata
\* declaration is present exactly when title, authors, description, date or
\* keywords is non-empty, and the centered title block only when the metadata
\* declaration is.
C14_SectionOrder ==
    Returned =>
        LET body == Join(FilterNonEmpty(bodyParts), <<NL, NL>>)
            bodyStart == Len(output) - Len(body) + 1
        IN  /\ \A a \in 1..Len(SectionTokens) :
                    Cardinality(LinesWith(SectionTokens[a])) <= 1
            /\ \A a, b \in 1..Len(SectionTokens) :
                    a < b =>
                        \A i \in LinesWith(SectionTokens[a]) :
                            \A j \in LinesWith(SectionTokens[b]) : i < j
            /\ body # <<>> =>
                    /\ Len(output) >= Len(body)
                    /\ SubSeq(output, bodyStart, Len(output)) = body
                    /\ \A a \in 1..Len(SectionTokens) :
                            \A i \in LinesWith(SectionTokens[a]) : i < bodyStart
            /\ LinesWith("#set document(") # {} <=>
                    \/ metadata.title # <<>>
                    \/ metadata.authors # <<>>
                    \/ Truthy(metadata.description)
                    \/ Truthy(metadata.date)
                    \/ (IsDef(metadata.keywords) /\ metadata.keywords.v # <<>>)
            /\ LinesWith("#align(center)[") # {} => LinesWith("#set document(") # {}

\* an output with every section
C14_Witness ==
    /\ Returned
    /\ \A a \in 1..Len(SectionTokens) : LinesWith(SectionTokens[a]) # {}
    /\ Join(FilterNonEmpty(bodyParts), <<NL, NL>>) # <<>>

\* C16: the leading level-1 heading is left out of the rendered body only when
\* its text matches the merged title; when the merged title differs from the
\* heading text, the heading is rendered in the body.
C16_HeadingKeptUnlessTitle ==
    (/\ Returned
     /\ LeadingHeadingText # <<>>
     /\ normalizeText(metadata.title) # LeadingHeadingText) =>
        Includes(output, HeadingLine(tree[FirstBodyIndex]))

KnownFields ==
    {"title", "author", "authors", "description", "keywords", "date", "abstract",
     "lang", "language", "region"}

\* the types a known field of the frontmatter may have
TypesOf(field) ==
    IF field \in {"authors", "keywords"} THEN {"array"}
    ELSE IF field = "author" THEN {"string", "array"}
    ELSE IF field = "date" THEN {"string", "date"}
    ELSE {"string"}

\* the mapping js-yaml decoded from the frontmatter block, <<>> when there is
\* no block or it is not a mapping
DecodedYaml ==
    LET yamls == {i \in 1..Len(tree) : tree[i].type = "yaml"}
        first == tree[CHOOSE i \in yamls : \A j \in yamls : i <= j]
    IN  IF yamls = {} \/ first.value = <<>> \/ first.yaml.kind # "object" THEN <<>>
        ELSE first.yaml.fields

WrongTyped == {f \in KnownFields \cap DOMAIN DecodedYaml : DecodedYaml[f].t \notin TypesOf(f)}

IsFrontmatterWarning(e) == e.severity = "warning" /\ e.context = "frontmatter parsing"

\* C19: every known field of the frontmatter whose value has the wrong type is
\* left out of the result and a warning is reported for it, and every correctly
\* typed field of the same block is extracted.
C19_WrongTypeSkippedWithWarning ==
    pc \in {"findLeadingH1", "mergeMetadata", "render", "done"} =>
        /\ \A f \in WrongTyped : ~IsDef(frontmatter[f])
        /\ options.onError => CountLog(IsFrontmatterWarning) >= Cardinality(WrongTyped)
        /\ \A f \in (KnownFields \cap DOMAIN DecodedYaml) \ WrongTyped :
                frontmatter[f] =
                    IF DecodedYaml[f].t = "array" THEN Arr(StringsOf(DecodedYaml[f].v))
                    ELSE Str(DecodedYaml[f].v)

\* the authors of one source: the plural field when it is a non-empty list,
\* otherwise the singular field, a string as a list of one
AuthorsOf(source) ==
    IF IsDef(source.authors) /\ source.authors.v # <<>> THEN source.authors.v
    ELSE IF source.author.t = "string" THEN <<source.author.v>>
    ELSE source.author.v

\* C20: when one source (the options, or the frontmatter when the options name
\* no author) has both the singular and the plural author field, the merged
\* author list is the plural field when it is non-empty and otherwise the
\* singular field.
C20_PluralElseSingular ==
    Merged =>
        /\ (IsDef(options.author) /\ IsDef(options.authors)) =>
                metadata.authors = AuthorsOf(options)
        /\ (/\ ~IsDef(options.author) /\ ~IsDef(options.authors)
            /\ IsDef(frontmatter.author) /\ IsDef(frontmatter.authors)) =>
                metadata.authors = AuthorsOf(frontmatter)

\* the top-level definitions whose identifier is this key, in source order
DefinitionsOf(key) ==
    LET same(node) == node.type = "definition" /\ ToLowerCase(node.identifier) = key
    IN  SelectSeq(tree, same)

\* the duplicate-definition warnings for this key, in the order reported
DuplicateWarningsOf(key) ==
    LET about(e) ==
            IsDuplicateDefinitionWarning(e) /\ ToLowerCase(e.details.identifier) = key
    IN  SelectSeq(errlog, about)

ColumnAlign(node, i) ==
    IF node.align # Null /\ i <= Len(node.align)
            /\ node.align[i] \in {"left", "right", "center"}
    THEN node.align[i]
    ELSE "left"

\* the alignment tuple the claim gives this table: one entry per header column
AlignLine(node) ==
    <<" ", " ", "align: (">>
        \o Join([i \in 1..Len(node.children[1].children) |-> <<ColumnAlign(node, i)>>],
                <<",", " ">>)
        \o <<")", ",">>

IsRenderedTable(node) ==
    /\ node.type = "table"
    /\ Len(node.children) > 0
    /\ Len(node.children[1].children) > 0

MathInner(m) == IF m.tex.ok THEN m.tex.out ELSE Trim(m.value)

\* the markup the claim gives a math span, by its length alone; the claim says
\* nothing of a span 3 longer than its value or without a position, which the
\* code renders inline
MathMarkup(m) ==
    IF m.span >= Len(Trim(m.value)) + 4
    THEN <<"$", " ">> \o MathInner(m) \o <<" ", "$">>
    ELSE <<"$">> \o MathInner(m) \o <<"$">>

IsMathParagraph(node) ==
    /\ node.type = "paragraph"
    /\ \E i \in 1..Len(node.children) : node.children[i].type = "inlineMath"
    /\ \A i \in 1..Len(node.children) : node.children[i].type \in {"inlineMath", "text"}

\* the math spans of the body that tex2typst does not convert, in order
FailingMath ==
    LET fails(n) == n.type = "inlineMath" /\ ~n.tex.ok
    IN  SelectSeq(Flatten([k \in 1..Len(BodyNodes) |->
                    IF IsMathParagraph(BodyNodes[k]) THEN BodyNodes[k].children
                    ELSE <<>>]), fails)

IsInlineMathWarning(e) == e.severity = "warning" /\ e.context = "inline math rendering"

\* C23: a math span is rendered as display (blanks inside the delimiters) when
\* it is at least 4 longer than its trimmed value and inline when it is 2 longer,
\* whether tex2typst converts it or throws; when it throws the trimmed LaTeX is
\* emitted unchanged and one warning carrying it is reported.
C23_MathDisplayChoice ==
    Returned =>
        /\ \A k \in 1..Len(BodyNodes) :
                IsMathParagraph(BodyNodes[k]) =>
                    bodyParts[k] =
                        Flatten([i \in 1..Len(BodyNodes[k].children) |->
                            IF BodyNodes[k].children[i].type = "text"
                            THEN BodyNodes[k].children[i].value
                            ELSE MathMarkup(BodyNodes[k].children[i])])
        /\ LET warnings == SelectSeq(errlog, IsInlineMathWarning)
           IN  IF options.onError
               THEN /\ Len(warnings) = Len(FailingMath)
                    /\ \A j \in 1..Len(warnings) :
                            warnings[j].details.latex = Trim(FailingMath[j].value)
               ELSE errlog = <<>>

\* a display span that tex2typst does not convert, next to one it converts
C23_Witness ==
    /\ Returned /\ options.onError
    /\ Len(BodyNodes) = 1 /\ IsMathParagraph(BodyNodes[1])
    /\ Len(BodyNodes[1].children) = 3
    /\ bodyParts[1] = <<"$", " ", "m", "+", "n", " ", "$", "t", "$", " ", "x", "^", "2", " ", "$">>
    /\ Len(errlog) = 1

\* text is wrapped in a run of n backticks that does not occur between the
\* opening and the closing run
WrappedIn(text, n) ==
    /\ Len(text) >= 2 * n
    /\ SubSeq(text, 1, n) = Repeat(BACKTICK, n)
    /\ SubSeq(text, Len(text) - n + 1, Len(text)) = Repeat(BACKTICK, n)
    /\ ~Includes(SubSeq(text, n + 1, Len(text) - n), Repeat(BACKTICK, n))

IsCodeParagraph(node) ==
    /\ node.type = "paragraph" /\ Len(node.children) = 1
    /\ node.children[1].type = "inlineCode" /\ node.children[1].value # Null

\* C24: inline code is wrapped in a delimiter that does not collide with its
\* content: the backtick run that opens and closes the markup of an inline code
\* value does not occur in the text emitted between the two runs.
C24_DelimiterNotInContent ==
    Returned =>
        \A k \in 1..Len(BodyNodes) :
            IsCodeParagraph(BodyNodes[k]) =>
                \E n \in 1..Len(bodyParts[k]) : WrappedIn(bodyParts[k], n)

\* the number of nodes of these trees
RECURSIVE TreeSize(_)
TreeSize(nodes) ==
    IF nodes = <<>> THEN 0
    ELSE 1 + (IF "children" \in DOMAIN Head(nodes) THEN TreeSize(Head(nodes).children)
              ELSE 0)
         + TreeSize(Tail(nodes))

\* the nesting depth of these trees: the nodes on the longest path down
RECURSIVE NestingDepth(_)
NestingDepth(nodes) ==
    IF nodes = <<>> THEN 0
    ELSE Max(1 + (IF "children" \in DOMAIN Head(nodes)
                  THEN NestingDepth(Head(nodes).children) ELSE 0),
             NestingDepth(Tail(nodes)))

\* how many times the body of a footnote was rendered for body node k: once
\* for every footnote the markup of the node opens
FootnoteRenderings(k) ==
    IF bodyParts[k] = Null THEN 0 ELSE Occurrences(bodyParts[k], <<"#footnote[">>)

\* C25: rendering ends for every tree, cyclic footnotes included, and no body
\* node makes the renderer go deeper than the nesting depth of the tree or
\* render the blocks of a footnote more often than the tree has nodes.
C25_RenderingBoundedByTree ==
    /\ ~input.parseFails => pc \notin {"fatal", "thrown"}
    /\ Returned =>
        \A k \in 1..Len(BodyNodes) :
            /\ FootnoteRenderings(k) <= NestingDepth(tree)
            /\ FootnoteRenderings(k) <= TreeSize(tree)

\* what one call gives when it is the only call: the pipeline of markdown2typst
\* as a function of the tree and the options
AloneAssembled(md, r, log) ==
    [s |-> assemble(md, Join(FilterNonEmpty(r.vals), <<NL, NL>>), r.ext),
     log |-> log \o r.log]

AloneRendered(children, opts, defs, fns, md, leading, log) ==
    AloneAssembled(md,
        renderBlockList(nodesForBody(children, md.title, leading), 0,
            [definitions |-> defs, footnoteDefinitions |-> fns,
             onError |-> opts.onError, depth |-> 0]),
        log)

AloneMerged(children, opts, defs, fns, fm, leading) ==
    AloneRendered(children, opts, defs.map, fns.map,
        mergeMetadata(opts, fm.fm, IF leading.found THEN Str(leading.title) ELSE Undefined),
        leading, defs.log \o fns.log \o fm.log)

AloneCollected(children, opts, defs) ==
    AloneMerged(children, opts, defs, collectFootnotes(children, opts.onError),
        parseFrontmatter(children, opts.onError),
        IF opts.useH1AsTitle THEN findLeadingH1(children, defs.map) ELSE NoLeadingH1)

ConvertAlone(children, opts) ==
    AloneCollected(children, opts, collectDefinitions(children, opts.onError))

RendersRemoteImage(k) ==
    Positions(RenderedInBlocks(<<BodyNodes[k]>>, Context), IsRemoteImage) # {}

\* C27: within one call the remote-image flag changes only while a body node
\* that renders a remote image is rendered, and only from false to true; the
\* output is assembled only after every body node has been rendered, and then
\* with the flag a remote image in the last node has set.
C27_FlagWrittenThenRead ==
    [][/\ externalImages' # externalImages =>
            /\ ~externalImages /\ externalImages'
            /\ pc = "render" /\ nodeIndex <= Len(BodyNodes)
            /\ RendersRemoteImage(nodeIndex)
       /\ (pc = "render" /\ nodeIndex <= Len(BodyNodes) /\ RendersRemoteImage(nodeIndex)) =>
            externalImages'
       /\ pc' = "done" =>
            /\ pc = "render"
            /\ nodeIndex > Len(BodyNodes) /\ Len(bodyParts) = Len(BodyNodes)
            /\ externalImages => Includes(output', <<ExternalImageLet>>)
            /\ ~externalImages => ~Includes(output', <<ExternalImageLet>>)]_vars

\* the only remote image is in the last body node, and the output has the
\* helper preamble
C27_Witness ==
    /\ Returned /\ Len(BodyNodes) >= 2
    /\ RendersRemoteImage(Len(BodyNodes))
    /\ \A k \in 1..(Len(BodyNodes) - 1) : ~RendersRemoteImage(k)
    /\ Includes(output, <<ExternalImageLet>>)

\* the options of the call with the error callback added or taken away
OtherCallback == [options EXCEPT !.onError = ~options.onError]

\* C28: the returned string is the one the same input and the same other
\* options give with the error callback added or taken away, and without a
\* callback nothing is logged: a non-fatal problem only adds log entries.
C28_CallbackDoesNotChangeResult ==
    /\ Returned => output = ConvertAlone(input.children, OtherCallback).s
    /\ ~options.onError => errlog = <<>>

\* a call with a callback has reported a problem and returned the string the
\* call without a callback returns
C28_Witness ==
    /\ Returned /\ options.onError /\ errlog # <<>>
    /\ ConvertAlone(input.children, OtherCallback).log = <<>>
    /\ output = ConvertAlone(input.children, OtherCallback).s

\* the children of a list item that renderListItem hands to renderBlock or
\* renderList: all but a first paragraph
ItemRest(item) ==
    IF item.children # <<>> /\ item.children[1].type = "paragraph"
    THEN Tail(item.children) ELSE item.children

RECURSIVE BlocksRenderedAt(_, _)
\* the blocks rendered below a block, each with its indentation level
BlocksWithin(node, level) ==
    IF node.type = "list"
    THEN UNION {BlocksRenderedAt(ItemRest(node.children[i]), level + 1) :
                    i \in 1..Len(node.children)}
    ELSE IF node.type = "blockquote" THEN BlocksRenderedAt(node.children, 0)
    ELSE {}

\* the pairs (block, indentation level) renderBlock and renderList are called
\* with when the blocks of nodes are rendered at a level
BlocksRenderedAt(nodes, level) ==
    IF nodes = <<>> THEN {}
    ELSE {<<Head(nodes), level>>} \cup BlocksWithin(Head(nodes), level)
         \cup BlocksRenderedAt(Tail(nodes), level)

\* every line of a text begins with 2 * level spaces or more
LinesIndented(lines, level) ==
    \A i \in 1..Len(lines) :
        /\ Len(lines[i]) >= 2 * level
        /\ \A j \in 1..(2 * level) : lines[i][j] = " "

\* the text renderBlock gives for a block at a level has only such lines
BlockIndented(r, level) ==
    (~r.thrown /\ r.s # Null /\ r.s # <<>>) => LinesIndented(SplitLines(r.s), level)

\* C29: every line of the text of a block rendered at indentation level k
\* begins with at least 2k spaces: for every list, list item child and block
\* quote child of the converted document, at the level it is rendered at.
C29_LinesIndented ==
    Returned =>
        \A b \in BlocksRenderedAt(BodyNodes, 0) :
            BlockIndented(renderBlock(b[1], b[2], Context), b[2])

\* the calls of the callback that report the failure that ends the call
IsFatalReport(e) == e \in {ParseError, BuildOutputError, FatalError}
FatalReports == SelectSeq(errlog, IsFatalReport)

\* C30: when a call ends by throwing, the callback has been called exactly
\* once for the failure that ended it.
C30_FatalReportedOnce ==
    (pc = "thrown" /\ options.onError) => Len(FatalReports) = 1

====
